---- MODULE Spec2Model ----
(***************************************************************************)
(* Model of the template-discovery backend of bigquery_optimizer:          *)
(*   - normalize_sql_pattern / hash_pattern      (backend_api/main*.py)    *)
(*   - scan_project, scan_project_with_information_schema                  *)
(*   - TemplateFirestoreManager (the "templates" collection)               *)
(*   - refresh_project of main_firestore.py and of main.py                 *)
(* SQL text is a sequence of one-character strings.  md5 is modelled as an *)
(* injective function (the hashed content itself).                         *)
(***************************************************************************)
EXTENDS Integers, Sequences, FiniteSets, TLC

VARIABLES
    sql,        \* SpecNorm: the raw SQL text handed to normalize_sql_pattern
    pattern,    \* SpecNorm: normalize_sql_pattern(sql)
    pattern2,   \* SpecNorm: normalize_sql_pattern(pattern)
    npc,        \* SpecNorm: "input" -> "once" -> "twice"; SpecLiteral: "input" -> "pair"
    sqlOther,   \* SpecLiteral: a second SQL text, compared with sql
    patternOther, \* SpecLiteral: normalize_sql_pattern(sqlOther)
    jobs,       \* INFORMATION_SCHEMA.JOBS_BY_PROJECT of each project: a sequence of rows
    price,      \* the price_per_tb the caller passes to the INFORMATION_SCHEMA scan
    now,        \* datetime.utcnow(), in seconds
    templates,  \* Firestore collection "templates": document id -> document
    fetched,    \* `results` of the last scan_project call: the rows it fetched
    scanResult, \* what the last scan_project call returned
    isResult,   \* what the last scan_project_with_information_schema call returned
    dryRun,     \* the last calculate_cost call: its arguments and its result
    agg,        \* SpecClassify: one row of query_template_aggregates
    tier,       \* SpecClassify: its priority_level
    projects,   \* Firestore collection "projects": project_id -> document
    queryTemplates,   \* Firestore collection "query_templates": <<project_id, template_hash>> -> document
    analysis_results, \* Firestore collection "template_analysis_results": the document ids
    mainProjects,     \* main.py: the project_id column of table bq_optimizer.projects
    mainTemplates,    \* main.py: the rows of table bq_optimizer.query_templates
    lastOp,     \* the operation that ran last, and the template ids it wrote
    upsert,     \* the last template upsert: the commits it made and what it returned
    proc,       \* the requests in flight: where each one is in its upsert
    fetch       \* the get_project_templates call in flight: its futures and its result

normVars == <<sql, pattern, pattern2, npc, sqlOther, patternOther>>
scanVars == <<jobs, price, now, templates, fetched, scanResult, isResult, dryRun>>
classVars == <<agg, tier>>
firestoreVars == <<projects, queryTemplates, analysis_results>>
mainVars == <<mainProjects, mainTemplates>>
upsertVars == <<upsert, proc, fetch>>
storeVars == <<firestoreVars, mainVars, lastOp>>
vars == <<normVars, scanVars, classVars, storeVars, upsertVars>>

\* Python None / SQL NULL: for text, for numbers, for identifiers
None == "None"
Null == 0 - 1
NoId == <<>>

\* ------------------------------------------------------------------------
\* Characters
\* ------------------------------------------------------------------------
Lower == <<"a","b","c","d","e","f","g","h","i","j","k","l","m",
           "n","o","p","q","r","s","t","u","v","w","x","y","z">>
Upper == <<"A","B","C","D","E","F","G","H","I","J","K","L","M",
           "N","O","P","Q","R","S","T","U","V","W","X","Y","Z">>
Digits == {"0","1","2","3","4","5","6","7","8","9"}

Range(f) == {f[i] : i \in DOMAIN f}

\* str.upper() on one character
UpperChar(c) ==
    IF c \in Range(Lower)
    THEN Upper[CHOOSE i \in DOMAIN Lower : Lower[i] = c]
    ELSE c

\* \d
IsDigit(c) == c \in Digits
\* \w
IsWord(c) == c \in Range(Lower) \/ c \in Range(Upper) \/ c \in Digits \/ c = "_"
\* \s
IsSpace(c) == c \in {" ", "\n", "\t"}

\* the character at 1-based index i, None past either end
At(s, i) == IF i >= 1 /\ i <= Len(s) THEN s[i] ELSE None

\* \b between s[i-1] and s[i]
Boundary(s, i) == IsWord(At(s, i - 1)) # IsWord(At(s, i))

\* ------------------------------------------------------------------------
\* normalize_sql_pattern, one regular expression at a time
\* ------------------------------------------------------------------------

\* the least of a non-empty set of indexes
Least(S) == CHOOSE k \in S : \A j \in S : k <= j

\* first index j >= i with s[j] = "\n", or Len(s)+1
EndOfLine(s, i) ==
    LET ends == { j \in i..Len(s) : s[j] = "\n" }
    IN  IF ends = {} THEN Len(s) + 1 ELSE Least(ends)

\* re.sub(r'--.*$', '', sql, flags=re.MULTILINE): the text from i on, each
\* leftmost match removed
RECURSIVE LineCommentsFrom(_, _)
LineCommentsFrom(s, i) ==
    LET starts == { k \in i..(Len(s) - 1) : s[k] = "-" /\ s[k + 1] = "-" }
    IN  IF starts = {} THEN SubSeq(s, i, Len(s))
        ELSE SubSeq(s, i, Least(starts) - 1)
             \o LineCommentsFrom(s, EndOfLine(s, Least(starts)))

RemoveLineComments(s) == LineCommentsFrom(s, 1)

\* first index j >= i with s[j..j+1] = "*/", or 0
CloseComment(s, i) ==
    LET ends == { j \in i..(Len(s) - 1) : s[j] = "*" /\ s[j + 1] = "/" }
    IN  IF ends = {} THEN 0 ELSE Least(ends)

\* re.sub(r'/\*[\s\S]*?\*/', '', normalized)
RECURSIVE BlockCommentsFrom(_, _)
BlockCommentsFrom(s, i) ==
    LET starts == { k \in i..(Len(s) - 1) :
                      s[k] = "/" /\ s[k + 1] = "*" /\ CloseComment(s, k + 2) # 0 }
    IN  IF starts = {} THEN SubSeq(s, i, Len(s))
        ELSE SubSeq(s, i, Least(starts) - 1)
             \o BlockCommentsFrom(s, CloseComment(s, Least(starts) + 2) + 2)

RemoveBlockComments(s) == BlockCommentsFrom(s, 1)

\* ' '.join(normalized.split()): the words from i on, a space before each
\* but the first
RECURSIVE WhitespaceFrom(_, _, _)
WhitespaceFrom(s, i, started) ==
    LET inWord == { k \in i..Len(s) : ~IsSpace(s[k]) }
    IN  IF inWord = {} THEN <<>>
        ELSE LET first == Least(inWord)
                 spaces == { k \in first..Len(s) : IsSpace(s[k]) }
                 end == IF spaces = {} THEN Len(s) + 1 ELSE Least(spaces)
             IN  (IF started THEN <<" ">> ELSE <<>>)
                 \o SubSeq(s, first, end - 1)
                 \o WhitespaceFrom(s, end, TRUE)

NormalizeWhitespace(s) == WhitespaceFrom(s, 1, FALSE)

\* first index j >= i with s[j] = q, or 0
NextQuote(s, i, q) ==
    LET at == { j \in i..Len(s) : s[j] = q }
    IN  IF at = {} THEN 0 ELSE Least(at)

\* re.sub(r"'[^']*'", '?', normalized) and the same for '"': the first quote
\* from i on opens a match when another quote follows it
RECURSIVE QuotedFrom(_, _, _)
QuotedFrom(s, i, q) ==
    LET open == NextQuote(s, i, q)
        close == IF open = 0 THEN 0 ELSE NextQuote(s, open + 1, q)
    IN  IF close = 0 THEN SubSeq(s, i, Len(s))
        ELSE SubSeq(s, i, open - 1) \o <<"?">> \o QuotedFrom(s, close + 1, q)

\* the text with its string literals left in place
KeepStringLiterals(s) == s

ReplaceStringLiterals(s) == QuotedFrom(QuotedFrom(s, 1, "'"), 1, "\"")

\* number of digits at s[i..]
RECURSIVE DigitRun(_, _)
DigitRun(s, i) == IF IsDigit(At(s, i)) THEN 1 + DigitRun(s, i + 1) ELSE 0

\* \d*\b at p, longest first: the index after the match, or 0
RECURSIVE DigitsThenBoundary(_, _, _)
DigitsThenBoundary(s, p, n) ==
    IF Boundary(s, p + n) THEN p + n
    ELSE IF n = 0 THEN 0
    ELSE DigitsThenBoundary(s, p, n - 1)

\* \.?\d*\b at p: with the dot first, then without
FractionEnd(s, p) ==
    LET withDot == IF At(s, p) = "."
                   THEN DigitsThenBoundary(s, p + 1, DigitRun(s, p + 1))
                   ELSE 0
    IN  IF withDot # 0 THEN withDot
        ELSE DigitsThenBoundary(s, p, DigitRun(s, p))

\* \d+\.?\d*\b at i with \d+ taking m digits, longest first
RECURSIVE NumberEnd(_, _, _)
NumberEnd(s, i, m) ==
    IF m = 0 THEN 0
    ELSE IF FractionEnd(s, i + m) # 0 THEN FractionEnd(s, i + m)
    ELSE NumberEnd(s, i, m - 1)

\* re.sub(r'\b\d+\.?\d*\b', '?', normalized)
RECURSIVE NumbersFrom(_, _)
NumbersFrom(s, i) ==
    LET starts == { k \in i..Len(s) :
                      /\ IsDigit(s[k])
                      /\ Boundary(s, k)
                      /\ NumberEnd(s, k, DigitRun(s, k)) # 0 }
    IN  IF starts = {} THEN SubSeq(s, i, Len(s))
        ELSE SubSeq(s, i, Least(starts) - 1) \o <<"?">>
             \o NumbersFrom(s, NumberEnd(s, Least(starts),
                                         DigitRun(s, Least(starts))))

ReplaceNumbers(s) == NumbersFrom(s, 1)

\* s[i..] starts with kw, ignoring case
HasKeyword(s, i, kw) ==
    /\ i + Len(kw) - 1 <= Len(s)
    /\ \A k \in 1..Len(kw) : UpperChar(s[i + k - 1]) = kw[k]

\* first index j >= i with s[j] not whitespace
RECURSIVE SkipSpace(_, _)
SkipSpace(s, i) == IF IsSpace(At(s, i)) THEN SkipSpace(s, i + 1) ELSE i

\* kw\s*\([^)]+\) at i: the index after the match, or 0
CallEnd(s, i, kw) ==
    IF ~HasKeyword(s, i, kw) THEN 0
    ELSE LET open == SkipSpace(s, i + Len(kw))
             close == NextQuote(s, open + 1, ")")
         IN  IF At(s, open) = "(" /\ close > open + 1 THEN close + 1 ELSE 0

\* re.sub(kw + r'\s*\([^)]+\)', kw + '(?)', normalized, flags=re.IGNORECASE)
RECURSIVE CallsFrom(_, _, _)
CallsFrom(s, i, kw) ==
    LET starts == { k \in i..Len(s) : CallEnd(s, k, kw) # 0 }
    IN  IF starts = {} THEN SubSeq(s, i, Len(s))
        ELSE SubSeq(s, i, Least(starts) - 1) \o kw \o <<"(", "?", ")">>
             \o CallsFrom(s, CallEnd(s, Least(starts), kw), kw)

ReplaceDateLiterals(s) ==
    CallsFrom(CallsFrom(s, 1, <<"D","A","T","E">>), 1,
              <<"T","I","M","E","S","T","A","M","P">>)

\* str.strip()
RECURSIVE Strip(_)
Strip(s) ==
    IF s = <<>> THEN s
    ELSE IF IsSpace(s[1]) THEN Strip(Tail(s))
    ELSE IF IsSpace(s[Len(s)]) THEN Strip(SubSeq(s, 1, Len(s) - 1))
    ELSE s

UpperStr(s) == [i \in DOMAIN s |-> UpperChar(s[i])]

normalize_sql_pattern(s) ==
    IF s = <<>> THEN <<>>
    ELSE Strip(UpperStr(ReplaceDateLiterals(ReplaceNumbers(
             ReplaceStringLiterals(NormalizeWhitespace(
                 RemoveBlockComments(RemoveLineComments(s))))))))

\* hashlib.md5(pattern.encode()).hexdigest(): injective on the patterns met
hash_pattern(p) == p

\* ------------------------------------------------------------------------
\* Exact arithmetic.  Byte counts are held in units of 4096 bytes, so that
\* 10^12 bytes and 2^40 bytes are both integers TLC can hold; a cost is a
\* reduced fraction <<numerator, denominator>> of a dollar (Python's and
\* BigQuery's floats, idealised).
\* ------------------------------------------------------------------------
RECURSIVE Gcd(_, _)
Gcd(a, b) == IF b = 0 THEN a ELSE Gcd(b, a % b)

Rat(n, d) == IF n = 0 THEN <<0, 1>> ELSE <<n \div Gcd(n, d), d \div Gcd(n, d)>>
RatTimesInt(r, k) == Rat(r[1] * (k \div Gcd(k, r[2])), r[2] \div Gcd(k, r[2]))
RatOverInt(r, k) ==
    IF r[1] = 0 THEN <<0, 1>>
    ELSE <<r[1] \div Gcd(r[1], k), r[2] * (k \div Gcd(r[1], k))>>
RatPlus(a, b) ==
    LET l == (a[2] \div Gcd(a[2], b[2])) * b[2]
    IN  Rat(a[1] * (l \div a[2]) + b[1] * (l \div b[2]), l)
\* r > k for an integer k
RatGtInt(r, k) ==
    \/ r[1] \div r[2] > k
    \/ r[1] \div r[2] = k /\ r[1] % r[2] > 0
\* ROUND(r, digits) of BigQuery, as an integer count of 10^-digits (half away
\* from zero; r >= 0 here)
RECURSIVE RoundFraction(_, _, _)
RoundFraction(rem, den, scale) ==
    IF scale = 1 THEN (IF 2 * rem >= den THEN 1 ELSE 0)
    ELSE ((rem * 10) \div den) * (scale \div 10)
         + RoundFraction((rem * 10) % den, den, scale \div 10)

RatRound(r, scale) ==
    (r[1] \div r[2]) * scale + RoundFraction(r[1] % r[2], r[2], scale)

RECURSIVE RatSum(_)
RatSum(rs) == IF rs = <<>> THEN <<0, 1>> ELSE RatPlus(rs[1], RatSum(Tail(rs)))

RECURSIVE Sum(_)
Sum(xs) == IF xs = <<>> THEN 0 ELSE xs[1] + Sum(Tail(xs))

\* sorted(xs)
RECURSIVE Insert(_, _)
Insert(x, xs) ==
    IF xs = <<>> THEN <<x>>
    ELSE IF x <= xs[1] THEN <<x>> \o xs
    ELSE <<xs[1]>> \o Insert(x, Tail(xs))

RECURSIVE Sorted(_)
Sorted(xs) == IF xs = <<>> THEN <<>> ELSE Insert(xs[1], Sorted(Tail(xs)))

\* s[:n]
Take(s, n) == SubSeq(s, 1, IF Len(s) < n THEN Len(s) ELSE n)

\* 10^12 bytes and 2^40 bytes, in units of 4096 bytes
DecimalTB == 244140625
BinaryTB == 268435456
\* the price per TB that scan_project hard-codes
ScanPrice == 5
\* LIMIT 10000 of scan_project's job-history query
ScanLimit == 10000
\* pattern[:500]
SnippetLen == 500
\* template["runs"][:10]
RecentRuns == 10

\* project ids, as text
Projects == { <<"p", "1">>, <<"p", "2">> }

\* ------------------------------------------------------------------------
\* scan_project of main_firestore.py: the job-history query
\* ------------------------------------------------------------------------

\* the WHERE clause without `error_result IS NULL`
ScanWhereKeepsErrors(row) ==
    /\ row.creation_time # Null
    /\ row.statement_type \in {"SELECT", "INSERT", "UPDATE", "DELETE", "MERGE"}
    /\ row.query # <<>>
    /\ row.total_bytes_processed # Null
    /\ row.total_bytes_processed > 0

\* the WHERE clause; every row of the modelled history is inside the
\* analysis window unless its creation_time is NULL
ScanWhere(row) ==
    /\ row.creation_time # Null
    /\ row.statement_type \in {"SELECT", "INSERT", "UPDATE", "DELETE", "MERGE"}
    /\ row.error_result = None
    /\ row.query # <<>>
    /\ row.total_bytes_processed # Null
    /\ row.total_bytes_processed > 0

\* ORDER BY creation_time DESC: every order of the rows `idx` of `rows` that
\* is non-increasing in creation_time (rows of equal time come in any order)
RECURSIVE NewestFirst(_, _)
NewestFirst(rows, idx) ==
    IF idx = {} THEN { <<>> }
    ELSE LET newest == { i \in idx : \A j \in idx :
                            rows[j].creation_time <= rows[i].creation_time }
         IN  UNION { { <<rows[i]>> \o rest : rest \in NewestFirst(rows, idx \ {i}) }
                     : i \in newest }

\* list(bq_client.query(query)): the possible result lists
ScanQuery(rows) ==
    { Take(res, ScanLimit) :
        res \in NewestFirst(rows, { i \in DOMAIN rows : ScanWhere(rows[i]) }) }

\* ------------------------------------------------------------------------
\* scan_project: grouping the rows into templates
\* ------------------------------------------------------------------------

\* Python's `x or y`
Or(x, y) == IF x # Null /\ x # 0 THEN x ELSE y

\* the run_data dictionary of one row
RunData(row) ==
    [ job_id          |-> row.job_id,
      creation_time   |-> row.creation_time,
      bytes_processed |-> Or(row.total_bytes_processed, 0),
      bytes_billed    |-> Or(row.total_bytes_billed, 0),
      runtime_seconds |-> Or(row.runtime_seconds, 0),
      estimated_cost  |->
          RatTimesInt(Rat(Or(row.total_bytes_billed,
                             Or(row.total_bytes_processed, 0)), DecimalTB),
                      ScanPrice) ]

\* [a-zA-Z0-9_-]
IsNameChar(c) == IsWord(c) \/ c = "-"

\* first index j >= i with s[j] not a name character
RECURSIVE NameEnd(_, _)
NameEnd(s, i) == IF IsNameChar(At(s, i)) THEN NameEnd(s, i + 1) ELSE i

\* FROM\s+(name)\.(name)\.(name) at i, ignoring case: the indices of the
\* first character of the second name and of the character after the third
\* name, or <<0, 0>>.  The optional backquotes of the expression are left
\* out: no text of the model holds one.
FromMatch(s, i) ==
    IF ~HasKeyword(s, i, <<"F", "R", "O", "M">>) THEN <<0, 0>>
    ELSE LET sp == SkipSpace(s, i + 4)
             n1 == sp
             e1 == NameEnd(s, n1)
             e2 == NameEnd(s, e1 + 1)
             e3 == NameEnd(s, e2 + 1)
         IN  IF /\ sp > i + 4
                /\ e1 > n1 /\ At(s, e1) = "."
                /\ e2 > e1 + 1 /\ At(s, e2) = "."
                /\ e3 > e2 + 1
             THEN <<e1 + 1, e3>>
             ELSE <<0, 0>>

\* re.findall(pattern, query_text, re.IGNORECASE), each match as
\* f"{match[1]}.{match[2]}"
RECURSIVE TablesFrom(_, _)
TablesFrom(s, i) ==
    LET starts == { k \in i..Len(s) : FromMatch(s, k)[1] # 0 }
    IN  IF starts = {} THEN {}
        ELSE LET match == FromMatch(s, Least(starts))
             IN  { SubSeq(s, match[1], match[2] - 1) }
                 \cup TablesFrom(s, match[2])

\* a referenced_tables column that is NULL
NoTables == [ kind |-> "none", refs |-> <<>> ]

\* referenced_tables is None ("none"), a JSON text holding a list of
\* references ("json"), or a list json.loads raises TypeError on ("list"; the
\* bare except swallows it); a reference is [dataset_id, table_id].  The
\* result list is the set of its elements.
extract_tables_from_query(query_text, referenced_tables) ==
    LET tables == IF referenced_tables.kind = "json"
                  THEN { referenced_tables.refs[k].dataset_id \o <<".">>
                             \o referenced_tables.refs[k].table_id :
                         k \in DOMAIN referenced_tables.refs }
                  ELSE {}
    IN  IF tables = {} /\ query_text # <<>>
        THEN TablesFrom(query_text, 1)
        ELSE tables

\* a template that starts with "total_runs": 1
NewTemplateCountsFromOne(project, row, pat) ==
    [ template_hash |-> hash_pattern(pat),
      project_id    |-> project,
      sql_pattern   |-> Take(pat, SnippetLen),
      full_sql      |-> row.query,
      tables_used   |-> extract_tables_from_query(row.query,
                                                  row.referenced_tables),
      runs          |-> <<>>,
      total_runs    |-> 1,
      total_bytes_processed |-> 0,
      first_seen    |-> row.creation_time,
      last_seen     |-> row.creation_time ]

\* templates[pattern_hash] = {...} for a hash met for the first time; `pat`
\* is the row's normalized pattern
NewTemplate(project, row, pat) ==
    [ template_hash |-> hash_pattern(pat),
      project_id    |-> project,
      sql_pattern   |-> Take(pat, SnippetLen),
      full_sql      |-> row.query,
      tables_used   |-> extract_tables_from_query(row.query,
                                                  row.referenced_tables),
      runs          |-> <<>>,
      total_runs    |-> 0,
      total_bytes_processed |-> 0,
      first_seen    |-> row.creation_time,
      last_seen     |-> row.creation_time ]

\* the loop body after the template is looked up; comparing a creation time
\* with a first_seen/last_seen of None raises TypeError
AddRun(t, row) ==
    LET counted == [t EXCEPT !.runs = Append(@, RunData(row)),
                             !.total_runs = @ + 1,
                             !.total_bytes_processed =
                                 @ + Or(row.total_bytes_processed, 0)]
    IN  IF row.creation_time = Null THEN [raised |-> FALSE, t |-> counted]
        ELSE IF t.last_seen = Null THEN [raised |-> TRUE, t |-> counted]
        ELSE [ raised |-> FALSE,
               t |-> [counted EXCEPT
                        !.last_seen = IF row.creation_time > @
                                      THEN row.creation_time ELSE @,
                        !.first_seen = IF row.creation_time < @
                                       THEN row.creation_time ELSE @] ]

\* a lookup that finds the hash only on the template added last
HashIndexOfLast(ts, h) ==
    IF ts # <<>> /\ ts[Len(ts)].template_hash = h THEN Len(ts) ELSE 0

\* index of the template with this hash in the dictionary, 0 when absent
HashIndex(ts, h) ==
    IF \E k \in DOMAIN ts : ts[k].template_hash = h
    THEN CHOOSE k \in DOMAIN ts : ts[k].template_hash = h
    ELSE 0

\* the dictionary with a template for the pattern `pat` of the row
WithTemplate(project, ts, row, pat) ==
    IF HashIndex(ts, hash_pattern(pat)) = 0
    THEN Append(ts, NewTemplate(project, row, pat))
    ELSE ts

\* the loop body on a dictionary that holds the row's template at index k
RunAdded(have, k, row) ==
    [ raised |-> AddRun(have[k], row).raised,
      ts |-> [have EXCEPT ![k] = AddRun(have[k], row).t] ]

\* one iteration of `for row in results`; `pat` is the row's pattern
GroupRow(project, ts, row, pat) ==
    RunAdded(WithTemplate(project, ts, row, pat),
             HashIndex(WithTemplate(project, ts, row, pat), hash_pattern(pat)),
             row)

\* `for row in results`, from row i on; the dictionary is the sequence of its
\* values in insertion order, and `step` is it after row i - 1
RECURSIVE GroupFrom(_, _, _, _)
GroupFrom(project, results, i, step) ==
    IF step.raised \/ i > Len(results) THEN step
    ELSE GroupFrom(project, results, i + 1,
                   GroupRow(project, step.ts, results[i],
                            normalize_sql_pattern(results[i].query)))

GroupRows(project, results) ==
    GroupFrom(project, results, 1, [ raised |-> FALSE, ts |-> <<>> ])

\* ------------------------------------------------------------------------
\* scan_project: the statistics of one template
\* ------------------------------------------------------------------------

Column(runs, field) == [k \in DOMAIN runs |-> runs[k][field]]

\* the mean of the smallest and the largest value
P50Midpoint(values) == (values[1] + values[Len(values)]) \div 2

\* values[len(values) // 2]
P50(values) == values[(Len(values) \div 2) + 1]
\* values[int(len(values) * 0.9)]
P90(values) == values[((Len(values) * 9) \div 10) + 1]
\* values[int(len(values) * 0.99)]
P99(values) == values[((Len(values) * 99) \div 100) + 1]

\* runs.sort(key=creation_time, reverse=True) compares the keys of two or
\* more runs, and raises TypeError when one of them is None
RunsSortRaises(runs) ==
    Len(runs) >= 2 /\ \E k \in DOMAIN runs : runs[k].creation_time = Null

\* runs.sort(key=creation_time, reverse=True): a stable sort
RECURSIVE InsertRun(_, _)
InsertRun(x, xs) ==
    IF xs = <<>> THEN <<x>>
    ELSE IF x.creation_time >= xs[1].creation_time THEN <<x>> \o xs
    ELSE <<xs[1]>> \o InsertRun(x, Tail(xs))

RECURSIVE NewestRunsFirst(_)
NewestRunsFirst(runs) ==
    IF runs = <<>> THEN <<>>
    ELSE InsertRun(runs[1], NewestRunsFirst(Tail(runs)))

\* the body of `for pattern_hash, template in templates.items()`; every
\* template has at least one run
TemplateStats(t) ==
    LET bytes_values == Sorted(Column(t.runs, "bytes_processed"))
        runtime_values == Sorted(Column(t.runs, "runtime_seconds"))
        cost_values == Column(t.runs, "estimated_cost")
    IN  [ template_hash |-> t.template_hash,
          project_id    |-> t.project_id,
          sql_pattern   |-> t.sql_pattern,
          full_sql      |-> t.full_sql,
          tables_used   |-> t.tables_used,
          total_runs    |-> t.total_runs,
          total_bytes_processed |-> t.total_bytes_processed,
          first_seen    |-> t.first_seen,
          last_seen     |-> t.last_seen,
          p50_bytes_processed |-> P50(bytes_values),
          p90_bytes_processed |-> P90(bytes_values),
          p99_bytes_processed |-> P99(bytes_values),
          p50_runtime_seconds |-> P50(runtime_values),
          p90_runtime_seconds |-> P90(runtime_values),
          recent_runs   |-> Take(NewestRunsFirst(t.runs), RecentRuns),
          total_cost    |-> RatSum(cost_values),
          avg_cost_per_run |-> RatOverInt(RatSum(cost_values), Len(cost_values)) ]

\* what scan_project returns once the rows are grouped: the dictionary, or
\* the HTTP 500 its except clause raises
Outcome(project, results, grouped) ==
    IF grouped.raised \/ \E k \in DOMAIN grouped.ts :
                             RunsSortRaises(grouped.ts[k].runs)
    THEN [ success |-> FALSE, status |-> 500, project_id |-> project,
           templates_discovered |-> 0, total_queries_analyzed |-> 0,
           templates |-> <<>> ]
    ELSE [ success |-> TRUE, status |-> 200, project_id |-> project,
           templates_discovered |-> Len(grouped.ts),
           total_queries_analyzed |-> Len(results),
           templates |-> [k \in DOMAIN grouped.ts |->
                             TemplateStats(grouped.ts[k])] ]

\* what scan_project returns for one result list of the query
ScanOutcome(project, results) ==
    Outcome(project, results, GroupRows(project, results))

\* ------------------------------------------------------------------------
\* TemplateFirestoreManager: the "templates" collection.  A document is a
\* function from the names of the fields it holds to their values.  The
\* write-only timestamps last_updated and last_analysis are left out.
\* ------------------------------------------------------------------------

\* dict.get(field, default)
Get(doc, field, default) == IF field \in DOMAIN doc THEN doc[field] ELSE default

\* set(data, merge=True) on a document holding `doc`
Merge(doc, data) ==
    [f \in DOMAIN doc \cup DOMAIN data |->
        IF f \in DOMAIN data THEN data[f] ELSE doc[f]]

\* a template id made of the pattern alone
generate_template_id_of_pattern(project_id, sql_pattern) == sql_pattern

\* md5(f"{project_id}:{sql_pattern}"): the hashed text itself
generate_template_id(project_id, sql_pattern) ==
    project_id \o <<":">> \o sql_pattern

\* the dictionary scan_project builds for Firestore out of one template
FirestoreTemplate(t) ==
    [ sqlSnippet        |-> t.sql_pattern,
      fullSql           |-> t.full_sql,
      runs              |-> t.total_runs,
      bytesProcessedP90 |-> t.p90_bytes_processed,
      runtimeP50        |-> t.p50_runtime_seconds,
      avgCostPerRun     |-> t.avg_cost_per_run,
      totalCost         |-> t.total_cost,
      firstSeen         |-> t.first_seen,
      lastSeen          |-> t.last_seen ]

\* the fields of the existing document with its analysis_status reset
PreservedFieldsAsNew(existing_data) ==
    [ analysis_result_id |-> Get(existing_data, "analysis_result_id", NoId),
      analysis_status    |-> "new",
      compliance_score   |-> Get(existing_data, "compliance_score", Null),
      created_at         |-> Get(existing_data, "created_at", Null) ]

\* the fields of the existing document without its compliance_score
PreservedFieldsButScore(existing_data) ==
    [ analysis_result_id |-> Get(existing_data, "analysis_result_id", NoId),
      analysis_status    |-> Get(existing_data, "analysis_status", "new"),
      compliance_score   |-> Null,
      created_at         |-> Get(existing_data, "created_at", Null) ]

\* the fields batch_save_templates adds to template_data when the document
\* exists already
PreservedFields(existing_data) ==
    [ analysis_result_id |-> Get(existing_data, "analysis_result_id", NoId),
      analysis_status    |-> Get(existing_data, "analysis_status", "new"),
      compliance_score   |-> Get(existing_data, "compliance_score", Null),
      created_at         |-> Get(existing_data, "created_at", Null) ]

\* fields of a new document that carry no creation time
FreshFieldsWithoutTime(time) == [ created_at |-> Null, analysis_status |-> "new" ]

\* the fields it adds when the document does not exist
FreshFields(time) == [ created_at |-> time, analysis_status |-> "new" ]

\* the template_data of a batch that never looks the document up
BatchDataAlwaysFresh(store, project_id, template_data, time) ==
    LET template_id == generate_template_id(project_id, template_data.sqlSnippet)
    IN  Merge(Merge(template_data, FreshFields(time)),
              [ project_id |-> project_id, template_id |-> template_id ])

\* the template_data of a batch that adds the stored run count to the new one
BatchDataAddsRuns(store, project_id, template_data, time) ==
    LET template_id == generate_template_id(project_id, template_data.sqlSnippet)
        found == template_id \in DOMAIN store
    IN  Merge(Merge([template_data EXCEPT
                        !.runs = IF found THEN @ + store[template_id].runs ELSE @],
                    IF found THEN PreservedFields(store[template_id])
                    ELSE FreshFields(time)),
              [ project_id |-> project_id, template_id |-> template_id ])

\* the template_data that batch.set is given for one template: the existing
\* document is read from the store as it is before the batch commits
BatchData(store, project_id, template_data, time) ==
    LET template_id == generate_template_id(project_id, template_data.sqlSnippet)
    IN  Merge(Merge(template_data,
                    IF template_id \in DOMAIN store
                    THEN PreservedFields(store[template_id])
                    ELSE FreshFields(time)),
              [ project_id |-> project_id, template_id |-> template_id ])

\* batch.set(doc_ref, template_data, merge=True), once committed
SetMerge(store, data) ==
    (data.template_id :>
        Merge(IF data.template_id \in DOMAIN store
              THEN store[data.template_id] ELSE <<>>, data)) @@ store

\* the sets lo..hi of a committed batch applied in order: the first half,
\* and once the store after it is known, the second
RECURSIVE CommitRange(_, _, _, _)
CommitRange(store, writes, lo, hi) ==
    IF lo > hi THEN store
    ELSE IF lo = hi THEN SetMerge(store, writes[lo])
    ELSE LET half == CommitRange(store, writes, lo, (lo + hi) \div 2)
         IN  IF half = store
             THEN CommitRange(store, writes, ((lo + hi) \div 2) + 1, hi)
             ELSE CommitRange(half, writes, ((lo + hi) \div 2) + 1, hi)

\* batch.commit()
Commit(store, writes) == CommitRange(store, writes, 1, Len(writes))

\* batch_save_templates: the store after it
batch_save_templates(store, project_id, tds, time) ==
    Commit(store,
           [k \in DOMAIN tds |-> BatchData(store, project_id, tds[k], time)])

\* the store after scan_project has returned `out`
SaveScan(store, project, out, time) ==
    IF out.success /\ out.templates # <<>>
    THEN batch_save_templates(store, project,
             [k \in DOMAIN out.templates |-> FirestoreTemplate(out.templates[k])],
             time)
    ELSE store

\* scan_project from `for row in results` on, `rs` being the result list
ScanRows(project, rs) ==
    /\ fetched' = rs
    /\ scanResult' = ScanOutcome(project, rs)
    /\ templates' = SaveScan(templates, project, scanResult', now)

\* the status of the HTTPException the except clause raises when the query
\* raises: by the text of the error
QueryErrors == { 400, 404, 500 }

\* what scan_project answers when bq_client.query or list(query_job) raises
QueryFailure(project, status) ==
    [ success |-> FALSE, status |-> status, project_id |-> project,
      templates_discovered |-> 0, total_queries_analyzed |-> 0,
      templates |-> <<>> ]

\* a scan that deletes the templates of the project before it queries
QueryRaisesAfterDelete(project, status) ==
    /\ fetched' = <<>>
    /\ scanResult' = QueryFailure(project, status)
    /\ templates' = [id \in { d \in DOMAIN templates :
                                 templates[d].project_id # project } |->
                         templates[id]]

\* scan_project when the query raises: nothing is fetched, nothing is saved
QueryRaises(project, status) ==
    /\ fetched' = <<>>
    /\ scanResult' = QueryFailure(project, status)
    /\ templates' = templates

\* the scan failed before any row was fetched
QueryFailed(out, rows) == ~out.success /\ out.status \in QueryErrors /\ rows = <<>>

\* POST /api/projects/scan of main_firestore.py
scan_project(project) ==
    /\ \/ \E rs \in ScanQuery(jobs[project]) : ScanRows(project, rs)
       \/ \E status \in QueryErrors : QueryRaises(project, status)
    /\ UNCHANGED <<jobs, price, now, isResult, dryRun>>

\* ------------------------------------------------------------------------
\* scan_project_with_information_schema: one SQL statement, then a loop
\* ------------------------------------------------------------------------

\* the WHERE clause of query_metrics without `statement_type = 'SELECT'`
MetricsWhereAnyStatement(row) ==
    /\ row.creation_time # Null
    /\ row.error_result = None
    /\ row.total_bytes_billed # Null
    /\ row.total_bytes_billed > 0

\* CTE query_metrics
MetricsWhere(row) ==
    /\ row.creation_time # Null
    /\ row.statement_type = "SELECT"
    /\ row.error_result = None
    /\ row.total_bytes_billed # Null
    /\ row.total_bytes_billed > 0

query_metrics(rows, price_per_tb) ==
    { [ job_id |-> rows[i].job_id,
        query_hash |-> rows[i].query_hash,
        total_bytes_billed |-> rows[i].total_bytes_billed,
        cache_hit |-> rows[i].cache_hit,
        estimated_cost_usd |->
            RatTimesInt(Rat(rows[i].total_bytes_billed, BinaryTB), price_per_tb) ]
      : i \in { i \in DOMAIN rows : MetricsWhere(rows[i]) } }

\* SUM over a finite set of rows
RECURSIVE SumOver(_, _)
SumOver(rs, field) ==
    IF rs = {} THEN <<0, 1>>
    ELSE LET r == CHOOSE r \in rs : TRUE
         IN  RatPlus(r[field], SumOver(rs \ {r}, field))

\* total of an integer field over a finite set of rows
RECURSIVE CountOver(_, _)
CountOver(rs, field) ==
    IF rs = {} THEN 0
    ELSE LET r == CHOOSE r \in rs : TRUE
         IN  r[field] + CountOver(rs \ {r}, field)

\* the CASE with `total_cost_usd >= 100` in its first branch
priority_level_from_hundred(total_cost_usd, execution_count, avg_cost_usd) ==
    IF total_cost_usd[1] >= 100 * total_cost_usd[2]
       \/ (execution_count > 500 /\ RatGtInt(avg_cost_usd, 1))
    THEN "CRITICAL"
    ELSE IF RatGtInt(total_cost_usd, 50)
            \/ (execution_count > 100 /\ RatGtInt(RatTimesInt(avg_cost_usd, 2), 1))
    THEN "HIGH"
    ELSE IF RatGtInt(total_cost_usd, 10)
            \/ (execution_count > 50 /\ RatGtInt(RatTimesInt(avg_cost_usd, 10), 1))
    THEN "MEDIUM"
    ELSE "LOW"

\* CASE ... END AS priority_level
priority_level(total_cost_usd, execution_count, avg_cost_usd) ==
    IF RatGtInt(total_cost_usd, 100)
       \/ (execution_count > 500 /\ RatGtInt(avg_cost_usd, 1))
    THEN "CRITICAL"
    ELSE IF RatGtInt(total_cost_usd, 50)
            \/ (execution_count > 100 /\ RatGtInt(RatTimesInt(avg_cost_usd, 2), 1))
    THEN "HIGH"
    ELSE IF RatGtInt(total_cost_usd, 10)
            \/ (execution_count > 50 /\ RatGtInt(RatTimesInt(avg_cost_usd, 10), 1))
    THEN "MEDIUM"
    ELSE "LOW"

\* CTEs query_template_aggregates and impactful_templates: one row per
\* query_hash that is not NULL
impactful_templates(rows, price_per_tb) ==
    LET metrics == query_metrics(rows, price_per_tb)
        hashes == { m.query_hash : m \in metrics } \ { None }
    IN  { LET group == { m \in metrics : m.query_hash = h }
              execution_count == Cardinality(group)
              total_cost_usd == SumOver(group, "estimated_cost_usd")
              avg_cost_usd == RatOverInt(total_cost_usd, execution_count)
              cache_hits == Cardinality({ m \in group : m.cache_hit })
          IN  [ query_hash |-> h,
                execution_count |-> execution_count,
                total_cost_usd |-> total_cost_usd,
                avg_cost_usd |-> avg_cost_usd,
                \* ROUND(cache_hits * 100.0 / execution_count, 1), in tenths
                cache_hit_rate |-> RatRound(Rat(cache_hits * 100, execution_count), 10),
                priority_level |->
                    priority_level(total_cost_usd, execution_count, avg_cost_usd) ]
          : h \in hashes }

\* the final SELECT and the loop over its rows; the bounded histories hold
\* fewer groups than its LIMIT 200, and the order of the list is not kept.
\* Costs are in cents (ROUND(total_cost_usd, 2)) and in 10^-4 dollars.
scan_project_with_information_schema(project, rows, price_per_tb) ==
    LET selected == { r \in impactful_templates(rows, price_per_tb) :
                        r.priority_level \in {"CRITICAL", "HIGH", "MEDIUM"} }
        result == { [ query_hash |-> r.query_hash,
                      execution_count |-> r.execution_count,
                      total_cost_usd |-> RatRound(r.total_cost_usd, 100),
                      avg_cost_usd |-> RatRound(r.avg_cost_usd, 10000),
                      cache_hit_rate |-> r.cache_hit_rate,
                      priority_level |-> r.priority_level ] : r \in selected }
    IN  [ success |-> TRUE,
          project_id |-> project,
          templates_discovered |-> Cardinality(result),
          total_queries_analyzed |-> CountOver(result, "execution_count"),
          templates |-> result ]

\* the call scan_information_schema of main.py makes
ScanInformationSchema(project) ==
    /\ isResult' = scan_project_with_information_schema(project, jobs[project], price)
    /\ UNCHANGED <<jobs, price, now, templates, fetched, scanResult, dryRun>>

\* ------------------------------------------------------------------------
\* calculate_cost of bigquery_metadata.py
\* ------------------------------------------------------------------------

\* round(bytes_processed / 10**12 * price_per_tb, 2), in cents
calculate_cost(bytes_processed, price_per_tb) ==
    RatRound(RatTimesInt(Rat(bytes_processed, DecimalTB), price_per_tb), 100)

\* one call of it
CalculateCost(bytes_processed, price_per_tb) ==
    /\ dryRun' = [ bytes_processed |-> bytes_processed,
                   price_per_tb |-> price_per_tb,
                   cost |-> calculate_cost(bytes_processed, price_per_tb) ]
    /\ UNCHANGED <<jobs, price, now, templates, fetched, scanResult, isResult>>

\* ------------------------------------------------------------------------
\* SpecScan: both scans applied to bounded job histories of one project
\* ------------------------------------------------------------------------
MaxJobs == 3
MaxGroup == 5

P1 == <<"p", "1">>
P2 == <<"p", "2">>

\* three statements, the first two differing in one numeric literal
QueryA5 == <<"a", "=", "5">>
QueryA42 == <<"a", "=", "4", "2">>
QueryB == <<"b">>

\* a SELECT that ran without error
GoodRow(q, h, bytes, runtime, hit) ==
    [ job_id |-> 0, query |-> q, query_hash |-> h, creation_time |-> 0,
      total_bytes_processed |-> bytes, total_bytes_billed |-> bytes,
      runtime_seconds |-> runtime, error_result |-> None,
      statement_type |-> "SELECT", cache_hit |-> hit,
      referenced_tables |-> NoTables ]

\* the kinds of row of the exclusion and grouping histories
RowKinds ==
    LET a == GoodRow(QueryA5, "hash_a", 10, 1, FALSE)
    IN  { a,
          GoodRow(QueryA42, "hash_a", 30, 3, TRUE),
          GoodRow(QueryB, "hash_b", 20, 2, FALSE),
          [a EXCEPT !.error_result = "accessDenied"],
          [a EXCEPT !.statement_type = "INSERT"],
          [a EXCEPT !.statement_type = "CREATE_TABLE"],
          [a EXCEPT !.total_bytes_billed = 0],
          [a EXCEPT !.total_bytes_processed = 0, !.total_bytes_billed = 0],
          [a EXCEPT !.creation_time = Null],
          [a EXCEPT !.query_hash = None] }

\* the byte counts of the percentile histories, and the runtime of each
PctValues == {10, 20, 30, 40, 50}
PctRuntime(bytes) == ((bytes \div 10) * 3) % 7

PctKinds == { GoodRow(QueryB, "hash_b", b, PctRuntime(b), FALSE) : b \in PctValues }

\* the kinds of row of the cost histories: a quarter of a binary TB, a whole
\* one, one served from the cache, and billed bytes that are NULL or 0
CostKinds ==
    LET tb == GoodRow(QueryB, "hash_b", BinaryTB, 1, FALSE)
    IN  { tb,
          [tb EXCEPT !.total_bytes_billed = Null],
          [tb EXCEPT !.total_bytes_billed = 0, !.total_bytes_processed = BinaryTB \div 4],
          [tb EXCEPT !.total_bytes_billed = BinaryTB \div 4],
          [tb EXCEPT !.cache_hit = TRUE],
          [tb EXCEPT !.error_result = "accessDenied"],
          [tb EXCEPT !.statement_type = "INSERT"] }

CostPrices == {5, 20}

RECURSIVE ListsOf(_, _)
ListsOf(kinds, n) ==
    IF n = 0 THEN { <<>> }
    ELSE LET shorter == ListsOf(kinds, n - 1)
         IN  shorter \cup { Append(l, k) : l \in shorter, k \in kinds }

\* job ids are the positions; with `paired`, rows 1 and 2 are created in the
\* same second, rows 3 and 4 in the next, ...
Stamp(l, paired) ==
    [k \in DOMAIN l |->
        [l[k] EXCEPT !.job_id = k,
                     !.creation_time =
                         IF @ = Null THEN Null
                         ELSE IF paired THEN (k + 1) \div 2 ELSE k]]

ScanInputs ==
    { <<Stamp(l, TRUE), ScanPrice>> : l \in ListsOf(RowKinds, MaxJobs) }
    \cup { <<Stamp(l, FALSE), ScanPrice>> : l \in ListsOf(PctKinds, MaxGroup) }
    \cup { <<Stamp(l, FALSE), p>> : l \in ListsOf(CostKinds, MaxJobs), p \in CostPrices }

NoResult ==
    [ success |-> FALSE, status |-> 0, project_id |-> <<>>,
      templates_discovered |-> 0, total_queries_analyzed |-> 0,
      templates |-> <<>> ]
NoIsResult ==
    [ success |-> FALSE, project_id |-> <<>>, templates_discovered |-> 0,
      total_queries_analyzed |-> 0, templates |-> {} ]

NoDryRun == [ bytes_processed |-> 0, price_per_tb |-> 0, cost |-> Null ]

NormIdle ==
    /\ sql = <<>>
    /\ pattern = <<>>
    /\ pattern2 = <<>>
    /\ npc = "idle"
    /\ sqlOther = <<>>
    /\ patternOther = <<>>

ScanIdle ==
    /\ jobs = [p \in Projects |-> <<>>]
    /\ price = ScanPrice
    /\ now = 0
    /\ templates = <<>>
    /\ fetched = <<>>
    /\ scanResult = NoResult
    /\ isResult = NoIsResult
    /\ dryRun = NoDryRun

ClassIdle ==
    /\ agg = [ total_cost_usd |-> <<0, 1>>, execution_count |-> 1,
               avg_cost_usd |-> <<0, 1>> ]
    /\ tier = "idle"

NoOp == [ op |-> "none", touched |-> {}, query_failed |-> FALSE ]

\* no upsert was made yet, and no request is in flight
NoUpsert == [ fn |-> "none", commits |-> <<>>, failed |-> 0, result |-> Null ]
Procs == {1, 2}
NoCall == [ pc |-> "idle", fn |-> "none", batch |-> <<>>, calls |-> 0 ]
\* get_project_templates was not called
NoFetch == [ pc |-> "idle", project_id |-> <<>>, template_docs |-> <<>>,
             futures |-> <<>>, analysis_map |-> <<>>, templates |-> <<>> ]

UpsertIdle ==
    /\ upsert = NoUpsert
    /\ proc = [p \in Procs |-> NoCall]
    /\ fetch = NoFetch

StoreIdle ==
    /\ projects = <<>>
    /\ queryTemplates = <<>>
    /\ analysis_results = {}
    /\ mainProjects = {}
    /\ mainTemplates = {}
    /\ lastOp = NoOp

InitScan ==
    /\ NormIdle
    /\ ClassIdle
    /\ StoreIdle
    /\ UpsertIdle
    /\ \E in \in ScanInputs :
         /\ jobs = [p \in Projects |-> IF p = P1 THEN in[1] ELSE <<>>]
         /\ price = in[2]
    /\ now = 0
    /\ templates = <<>>
    /\ fetched = <<>>
    /\ scanResult = NoResult
    /\ isResult = NoIsResult
    /\ dryRun = NoDryRun

ScanOnce ==
    /\ scanResult = NoResult
    /\ scan_project(P1)
    /\ UNCHANGED <<normVars, classVars, upsertVars, storeVars>>

ScanSchemaOnce ==
    /\ scanResult # NoResult
    /\ isResult = NoIsResult
    /\ ScanInformationSchema(P1)
    /\ UNCHANGED <<normVars, classVars, upsertVars, storeVars>>

\* the newest job of the history is priced
DryRunOnce ==
    /\ isResult # NoIsResult
    /\ dryRun = NoDryRun
    /\ jobs[P1] # <<>>
    /\ CalculateCost(Or(jobs[P1][Len(jobs[P1])].total_bytes_processed, 0), price)
    /\ UNCHANGED <<normVars, classVars, upsertVars, storeVars>>

NextScan == ScanOnce \/ ScanSchemaOnce \/ DryRunOnce

\* ------------------------------------------------------------------------
\* SpecNorm: normalize_sql_pattern applied to bounded SQL text, then to its
\* own output
\* ------------------------------------------------------------------------
MaxFrags == 4

Fragments ==
    { <<"-">>, <<"/", "*">>, <<"*", "/">>, <<"'">>, <<"1">>, <<"2", ".">>,
      <<" ">>, <<"a">>, <<"d","a","t","e","(">>, <<")">> }

RECURSIVE Texts(_)
Texts(n) ==
    IF n = 0 THEN { <<>> }
    ELSE LET shorter == Texts(n - 1)
         IN  shorter \cup { t \o f : t \in shorter, f \in Fragments }

InitNorm ==
    /\ ScanIdle
    /\ ClassIdle
    /\ StoreIdle
    /\ UpsertIdle
    /\ sql \in Texts(MaxFrags)
    /\ pattern = <<>>
    /\ pattern2 = <<>>
    /\ npc = "input"
    /\ sqlOther = <<>>
    /\ patternOther = <<>>

Normalize ==
    /\ npc = "input"
    /\ pattern' = normalize_sql_pattern(sql)
    /\ npc' = "once"
    /\ UNCHANGED <<sql, pattern2, sqlOther, patternOther>>
    /\ UNCHANGED <<scanVars, classVars, upsertVars, storeVars>>

NormalizeAgain ==
    /\ npc = "once"
    /\ pattern2' = normalize_sql_pattern(pattern)
    /\ npc' = "twice"
    /\ UNCHANGED <<sql, pattern, sqlOther, patternOther>>
    /\ UNCHANGED <<scanVars, classVars, upsertVars, storeVars>>

NextNorm == Normalize \/ NormalizeAgain

SpecNorm == InitNorm /\ [][NextNorm]_vars

SpecScan == InitScan /\ [][NextScan]_vars

\* ------------------------------------------------------------------------
\* The job history of a project, and the clock
\* ------------------------------------------------------------------------
MaxHistory == 1
MaxTime == 1

MaxAnalyses == 1

\* the job users run
JobKinds == { GoodRow(QueryA5, "hash_a", 10, 1, FALSE),
              GoodRow(QueryB, "hash_b", 20, 2, FALSE) }

\* max(job_id) + 1
RECURSIVE NextJobId(_)
NextJobId(rows) ==
    IF rows = <<>> THEN 1
    ELSE LET rest == NextJobId(Tail(rows))
         IN  IF rows[1].job_id >= rest THEN rows[1].job_id + 1 ELSE rest

\* a job of the project finishes: INFORMATION_SCHEMA.JOBS_BY_PROJECT gains a row
RunJob(project, kind) ==
    /\ Len(jobs[project]) < MaxHistory
    /\ jobs' = [jobs EXCEPT ![project] =
                   Append(@, [kind EXCEPT !.job_id = NextJobId(jobs[project]),
                                          !.creation_time = now])]
    /\ lastOp' = [ op |-> "RunJob", touched |-> {}, query_failed |-> FALSE ]
    /\ UNCHANGED <<price, now, templates, fetched, scanResult, isResult, dryRun>>
    /\ UNCHANGED <<normVars, classVars, upsertVars, firestoreVars, mainVars>>

\* the oldest job of the project leaves the analysis window
ExpireJob(project) ==
    /\ jobs[project] # <<>>
    /\ jobs' = [jobs EXCEPT ![project] = Tail(@)]
    /\ lastOp' = [ op |-> "ExpireJob", touched |-> {}, query_failed |-> FALSE ]
    /\ UNCHANGED <<price, now, templates, fetched, scanResult, isResult, dryRun>>
    /\ UNCHANGED <<normVars, classVars, upsertVars, firestoreVars, mainVars>>

\* a second passes
Tick ==
    /\ now < MaxTime
    /\ now' = now + 1
    /\ lastOp' = [ op |-> "Tick", touched |-> {}, query_failed |-> FALSE ]
    /\ UNCHANGED <<jobs, price, templates, fetched, scanResult, isResult, dryRun>>
    /\ UNCHANGED <<normVars, classVars, upsertVars, firestoreVars, mainVars>>

\* ------------------------------------------------------------------------
\* main_firestore.py: the endpoints that write the Firestore collections
\* ------------------------------------------------------------------------

\* the template ids batch_save_templates returns for a scan result
TemplateIds(project, out) ==
    IF out.success
    THEN { generate_template_id(project, out.templates[k].sql_pattern)
             : k \in DOMAIN out.templates }
    ELSE {}

\* the fields of a scanned template that the model of "query_templates" keeps
Stored(t) ==
    [ template_hash |-> t.template_hash, project_id |-> t.project_id,
      total_runs |-> t.total_runs ]

\* firestore_service.save_templates, one template: a document of the project
\* with the same template_hash is updated, and one is created when there is
\* none
SaveOne(store, t, project_id, time) ==
    (<<project_id, t.template_hash>> :>
        IF <<project_id, t.template_hash>> \in DOMAIN store
        THEN Merge(store[<<project_id, t.template_hash>>], Stored(t))
        ELSE Merge(Stored(t), [ created_at |-> time ])) @@ store

\* the templates lo..hi saved in order: the first half, and once the store
\* after it is known, the second
RECURSIVE SaveRange(_, _, _, _, _, _)
SaveRange(store, scanned, project_id, time, lo, hi) ==
    IF lo > hi THEN store
    ELSE IF lo = hi THEN SaveOne(store, scanned[lo], project_id, time)
    ELSE LET half == SaveRange(store, scanned, project_id, time, lo, (lo + hi) \div 2)
         IN  IF half = store
             THEN SaveRange(store, scanned, project_id, time, ((lo + hi) \div 2) + 1, hi)
             ELSE SaveRange(half, scanned, project_id, time, ((lo + hi) \div 2) + 1, hi)

\* firestore_service.save_templates: the store once its commits are made
save_templates(store, scanned, project_id, time) ==
    SaveRange(store, scanned, project_id, time, 1, Len(scanned))

\* firestore_service.create_project: an existing document keeps is_active
CreateProjectDoc(store, project_id) ==
    [ p \in DOMAIN store \cup {project_id} |->
        IF p \in DOMAIN store THEN store[p] ELSE [ is_active |-> TRUE ] ]

\* firestore_service.get_projects(active_only=True): the ids it lists
get_projects(store) == { p \in DOMAIN store : store[p].is_active }

\* firestore_service.get_templates(project_id): the documents of collection
\* "query_templates" with that project_id; their order is not kept
get_templates(store, project_id) ==
    { store[k] : k \in { k \in DOMAIN store : store[k].project_id = project_id } }

\* GET /api/projects/{project_id}/templates of main_firestore.py: of each
\* formatted template, projectId, runs and the hash of the pattern are kept
get_project_templates(project_id) ==
    { [ projectId     |-> Get(t, "project_id", None),
        template_hash |-> Get(t, "template_hash", None),
        runs          |-> Get(t, "total_runs", 0) ]
      : t \in get_templates(queryTemplates, project_id) }

\* DELETE /api/projects/{project_id} of main_firestore.py:
\* firestore_service.delete_project(project_id, soft_delete=True) updates
\* is_active; a project that is not stored is answered with an error
delete_project(project) ==
    /\ IF project \in DOMAIN projects
       THEN projects' = [projects EXCEPT ![project] =
                            Merge(@, [ is_active |-> FALSE ])]
       ELSE UNCHANGED projects
    /\ lastOp' = [ op |-> "delete_project", touched |-> {}, query_failed |-> FALSE ]
    /\ UNCHANGED <<queryTemplates, analysis_results>>
    /\ UNCHANGED <<normVars, scanVars, classVars, upsertVars, mainVars>>

\* POST /api/projects/scan, called on its own
ScanProject(project) ==
    /\ scan_project(project)
    /\ lastOp' = [ op |-> "scan_project", touched |-> TemplateIds(project, scanResult'),
                   query_failed |-> QueryFailed(scanResult', fetched') ]
    /\ UNCHANGED <<normVars, classVars, upsertVars, firestoreVars, mainVars>>

\* POST /api/projects
create_project(project) ==
    /\ scan_project(project)
    /\ IF scanResult'.success
       THEN /\ projects' = CreateProjectDoc(projects, project)
            /\ queryTemplates' =
                   save_templates(queryTemplates, scanResult'.templates, project, now)
       ELSE UNCHANGED <<projects, queryTemplates>>
    /\ lastOp' = [ op |-> "create_project", touched |-> TemplateIds(project, scanResult'),
                   query_failed |-> QueryFailed(scanResult', fetched') ]
    /\ UNCHANGED <<analysis_results, normVars, classVars, upsertVars, mainVars>>

\* POST /api/projects/{project_id}/refresh: a project that is not stored is
\* answered with an error, any other is scanned again
refresh_project(project) ==
    /\ IF project \in DOMAIN projects
       THEN /\ scan_project(project)
            /\ lastOp' = [ op |-> "refresh_project", touched |-> TemplateIds(project, scanResult'),
                   query_failed |-> QueryFailed(scanResult', fetched') ]
       ELSE /\ lastOp' = [ op |-> "refresh_project", touched |-> {}, query_failed |-> FALSE ]
            /\ UNCHANGED scanVars
    /\ UNCHANGED <<normVars, classVars, upsertVars, firestoreVars, mainVars>>

\* the four fields save_template copies from the document that exists
SavedFields(existing_data, time) ==
    [ created_at         |-> Get(existing_data, "created_at", time),
      analysis_result_id |-> Get(existing_data, "analysis_result_id", NoId),
      analysis_status    |-> Get(existing_data, "analysis_status", "new"),
      compliance_score   |-> Get(existing_data, "compliance_score", Null) ]

\* TemplateFirestoreManager.save_template: the store after it
save_template(store, project_id, template_data, time) ==
    LET template_id == generate_template_id(project_id, template_data.sqlSnippet)
        data == Merge(Merge(template_data,
                            [ project_id |-> project_id, template_id |-> template_id ]),
                      IF template_id \in DOMAIN store
                      THEN SavedFields(store[template_id], time)
                      ELSE FreshFields(time))
    IN  [ id \in DOMAIN store \cup {template_id} |->
            IF id = template_id
            THEN Merge(IF id \in DOMAIN store THEN store[id] ELSE <<>>, data)
            ELSE store[id] ]

\* one template of the last scan result is saved on its own
SaveTemplate ==
    /\ scanResult.success
    /\ \E k \in DOMAIN scanResult.templates :
         LET template_data == FirestoreTemplate(scanResult.templates[k])
             project == scanResult.project_id
         IN  /\ templates' = save_template(templates, project, template_data, now)
             /\ lastOp' = [ op |-> "save_template", touched |-> { generate_template_id(project,
                                              template_data.sqlSnippet) },
                            query_failed |-> FALSE ]
    /\ UNCHANGED <<jobs, price, now, fetched, scanResult, isResult, dryRun>>
    /\ UNCHANGED <<normVars, classVars, upsertVars, firestoreVars, mainVars>>

\* result["metadata"]["optimizationScore"] of an analysis: absent, or a score
Scores == { Null, 80 }

\* a template id no document has
UnknownTemplate == <<"?">>

\* TemplateFirestoreManager.save_analysis_result, called by POST
\* /api/templates/save-analysis: the analysis document is written first; the
\* update of a template document that does not exist raises NotFound
save_analysis_result(project_id, template_id, score) ==
    LET analysis_id == template_id \o <<"_">> \o <<now>>
    IN  /\ Cardinality(analysis_results) < MaxAnalyses
        /\ analysis_results' = analysis_results \cup {analysis_id}
        /\ IF template_id \in DOMAIN templates
           THEN templates' = [templates EXCEPT ![template_id] =
                    Merge(@, [ analysis_result_id |-> analysis_id,
                               analysis_status    |-> "completed",
                               compliance_score   |-> score ])]
           ELSE UNCHANGED templates
        /\ lastOp' = [ op |-> "save_analysis_result", touched |-> {template_id} \cap DOMAIN templates,
                     query_failed |-> FALSE ]
        /\ UNCHANGED <<jobs, price, now, fetched, scanResult, isResult, dryRun>>
        /\ UNCHANGED <<projects, queryTemplates, normVars, classVars, upsertVars, mainVars>>

\* ------------------------------------------------------------------------
\* Spec: the Firestore backend (main_firestore.py) under any sequence of
\* jobs, scans, refreshes and saved analyses
\* ------------------------------------------------------------------------
Init ==
    /\ NormIdle
    /\ ScanIdle
    /\ ClassIdle
    /\ StoreIdle
    /\ UpsertIdle

\* the project P1: its jobs, and the requests made for it
JobRuns == \E kind \in JobKinds : RunJob(P1, kind)
JobExpires == ExpireJob(P1)
Scan == ScanProject(P1)
Create == create_project(P1)
Refresh == refresh_project(P1)
SaveAnalysis ==
    \E id \in DOMAIN templates \cup {UnknownTemplate}, score \in Scores :
        save_analysis_result(P1, id, score)

Next ==
    \/ JobRuns
    \/ JobExpires
    \/ Tick
    \/ Scan
    \/ Create
    \/ Refresh
    \/ SaveTemplate
    \/ SaveAnalysis

Spec == Init /\ [][Next]_vars

\* ------------------------------------------------------------------------
\* main.py: the endpoints that write table bq_optimizer.query_templates.
\* Of a row, the columns template_id, project_id, template_hash, total_runs,
\* state, compliance_score and created_at are kept.
\* ------------------------------------------------------------------------

\* scan_project of main.py: the templates it returns for one result list of
\* the same job-history query; f"tmpl_{pattern_hash[:8]}" is the hash itself
main_scan_project(project, results) ==
    LET grouped == GroupRows(project, results).ts
    IN  { [ template_id   |-> grouped[k].template_hash,
            template_hash |-> grouped[k].template_hash,
            total_runs    |-> grouped[k].total_runs ] : k \in DOMAIN grouped }

\* the template_rows that create_project and refresh_project insert
TemplateRows(project, scanned, time) ==
    { [ template_id   |-> t.template_id,
        project_id    |-> project,
        template_hash |-> t.template_hash,
        total_runs    |-> t.total_runs,
        state         |-> "new",
        compliance_score |-> Null,
        created_at    |-> time ] : t \in scanned }

\* POST /api/projects of main.py: a project that is stored already is only
\* updated and scanned, a new one is inserted with the templates of the scan
main_create_project(project) ==
    /\ \/ /\ \E rs \in ScanQuery(jobs[project]) :
                IF project \in mainProjects
                THEN UNCHANGED <<mainProjects, mainTemplates>>
                ELSE /\ mainProjects' = mainProjects \cup {project}
                     /\ mainTemplates' = mainTemplates \cup
                            TemplateRows(project, main_scan_project(project, rs), now)
          /\ lastOp' = [ op |-> "main_create_project", touched |-> {},
                         query_failed |-> FALSE ]
       \/ /\ UNCHANGED <<mainProjects, mainTemplates>>
          /\ lastOp' = [ op |-> "main_create_project", touched |-> {},
                         query_failed |-> TRUE ]
    /\ UNCHANGED <<normVars, scanVars, classVars, upsertVars, firestoreVars>>

\* POST /api/projects/{project_id}/refresh of main.py: scan, DELETE FROM
\* query_templates WHERE project_id = ..., insert the templates of the scan
main_refresh_project(project) ==
    /\ \/ /\ \E rs \in ScanQuery(jobs[project]) :
                IF project \in mainProjects
                THEN mainTemplates' =
                         { r \in mainTemplates : r.project_id # project } \cup
                         TemplateRows(project, main_scan_project(project, rs), now)
                ELSE UNCHANGED mainTemplates
          /\ lastOp' = [ op |-> "main_refresh_project", touched |-> {},
                         query_failed |-> FALSE ]
       \/ /\ project \in mainProjects
          /\ UNCHANGED mainTemplates
          /\ lastOp' = [ op |-> "main_refresh_project", touched |-> {},
                         query_failed |-> TRUE ]
    /\ UNCHANGED <<mainProjects, normVars, scanVars, classVars, upsertVars, firestoreVars>>

\* DELETE /api/projects/{project_id} of main.py: DELETE FROM projects, DELETE
\* FROM query_templates, DELETE FROM analyses, each WHERE project_id = ...
main_delete_project(project) ==
    /\ mainProjects' = mainProjects \ {project}
    /\ mainTemplates' = { r \in mainTemplates : r.project_id # project }
    /\ lastOp' = [ op |-> "main_delete_project", touched |-> {},
                   query_failed |-> FALSE ]
    /\ UNCHANGED <<normVars, scanVars, classVars, upsertVars, firestoreVars>>

\* metadata.optimizationScore of an analysis result, 0 when absent
MainScores == { 0, 80 }

\* POST /api/templates/save-analysis of main.py: UPDATE query_templates SET
\* state = 'analyzed', compliance_score = ... WHERE template_id = ... AND
\* project_id = ...
main_save_template_analysis(project_id, template_id, score) ==
    /\ mainTemplates' =
           { IF r.template_id = template_id /\ r.project_id = project_id
             THEN [r EXCEPT !.state = "analyzed", !.compliance_score = score]
             ELSE r : r \in mainTemplates }
    /\ lastOp' = [ op |-> "main_save_template_analysis", touched |-> {}, query_failed |-> FALSE ]
    /\ UNCHANGED <<mainProjects, normVars, scanVars, classVars, upsertVars, firestoreVars>>

\* ------------------------------------------------------------------------
\* SpecMain: the BigQuery-table backend (main.py) for the project P1
\* ------------------------------------------------------------------------
MainCreate == main_create_project(P1)
MainRefresh == main_refresh_project(P1)
MainSaveAnalysis ==
    \E id \in { r.template_id : r \in mainTemplates } \cup {UnknownTemplate},
       score \in MainScores :
        main_save_template_analysis(P1, id, score)

NextMain ==
    \/ JobRuns
    \/ JobExpires
    \/ Tick
    \/ MainCreate
    \/ MainRefresh
    \/ MainSaveAnalysis

SpecMain == Init /\ [][NextMain]_vars

\* ------------------------------------------------------------------------
\* Properties of the stores (Spec, SpecMain)
\* ------------------------------------------------------------------------

\* the analysis annotations of a stored template, as a reader gets them
Annotations(doc) ==
    [ analysis_result_id |-> Get(doc, "analysis_result_id", NoId),
      analysis_status    |-> Get(doc, "analysis_status", "new"),
      compliance_score   |-> Get(doc, "compliance_score", Null) ]

\* the operations that upsert scanned templates
Upserts == { "scan_project", "create_project", "refresh_project", "save_template" }

\* C1: an upsert of scanned templates (batch_save_templates within a scan, or
\* save_template) leaves analysis_result_id, analysis_status, compliance_score
\* and created_at of every document that existed before it as they were.
C1_UpsertKeepsAnalysis ==
    [][ lastOp'.op \in Upserts =>
          \A id \in DOMAIN templates :
              /\ id \in DOMAIN templates'
              /\ Annotations(templates'[id]) = Annotations(templates[id])
              /\ Get(templates'[id], "created_at", Null)
                   = Get(templates[id], "created_at", Null) ]_vars

\* a scan has just upserted a template that was completed with a score, at a
\* later time than the template was created
C1_CompletedTemplateRescanned ==
    /\ lastOp.op = "scan_project"
    /\ \E id \in lastOp.touched :
         /\ templates[id].analysis_status = "completed"
         /\ templates[id].compliance_score # Null
         /\ templates[id].created_at < now

\* C2: once a stored template has analysis_status = completed, no scan,
\* refresh or saved analysis makes it new again: it is still stored, and
\* still completed, after every step.
C2_CompletedStaysCompleted ==
    [][ \A id \in DOMAIN templates :
          Get(templates[id], "analysis_status", "new") = "completed" =>
              /\ id \in DOMAIN templates'
              /\ Get(templates'[id], "analysis_status", "new") = "completed" ]_vars

\* a refresh has just rediscovered a completed template
C2_CompletedTemplateRefreshed ==
    /\ lastOp.op = "refresh_project"
    /\ \E id \in lastOp.touched : templates[id].analysis_status = "completed"

\* C3: a refresh deletes no template: every template stored before it, in
\* the Firestore collection or in the query_templates table, is stored after
\* it with the analysis annotations it had.
C3_RefreshKeepsTemplates ==
    [][ lastOp'.op \in { "refresh_project", "main_refresh_project" } =>
          /\ \A id \in DOMAIN templates :
               /\ id \in DOMAIN templates'
               /\ Annotations(templates'[id]) = Annotations(templates[id])
          /\ \A r \in mainTemplates :
               \E kept \in mainTemplates' :
                   /\ kept.project_id = r.project_id
                   /\ kept.template_id = r.template_id
                   /\ kept.state = r.state
                   /\ kept.compliance_score = r.compliance_score ]_vars

\* ------------------------------------------------------------------------
\* SpecClassify: priority_level applied to aggregates around its thresholds
\* ------------------------------------------------------------------------

\* total_cost_usd in cents, and execution_count
TotalCents == {0, 500, 999, 1000, 1001, 4999, 5000, 5001, 9999, 10000, 10001, 60000}
Executions == {1, 50, 51, 100, 101, 500, 501}

\* AVG(estimated_cost_usd) is SUM(estimated_cost_usd) / COUNT(*)
Aggregates ==
    { [ total_cost_usd |-> Rat(c, 100), execution_count |-> n,
        avg_cost_usd |-> RatOverInt(Rat(c, 100), n) ]
      : c \in TotalCents, n \in Executions }

InitClassify ==
    /\ NormIdle
    /\ ScanIdle
    /\ StoreIdle
    /\ UpsertIdle
    /\ agg \in Aggregates
    /\ tier = "idle"

Classify ==
    /\ tier = "idle"
    /\ tier' = priority_level(agg.total_cost_usd, agg.execution_count, agg.avg_cost_usd)
    /\ UNCHANGED <<agg, normVars, scanVars, storeVars, upsertVars>>

NextClassify == Classify

SpecClassify == InitClassify /\ [][NextClassify]_vars

\* r > n/d
Exceeds(r, n, d) == r[1] * d > n * r[2]

\* C9: the tier is the first rule that matches, every comparison strict:
\* CRITICAL if total_cost > 100 or (runs > 500 and avg_cost > 1), else HIGH if
\* total_cost > 50 or (runs > 100 and avg_cost > 0.5), else MEDIUM if
\* total_cost > 10 or (runs > 50 and avg_cost > 0.1), else LOW.
C9_FirstMatchingTier ==
    tier # "idle" =>
        tier = IF Exceeds(agg.total_cost_usd, 100, 1)
                  \/ (agg.execution_count > 500 /\ Exceeds(agg.avg_cost_usd, 1, 1))
               THEN "CRITICAL"
               ELSE IF Exceeds(agg.total_cost_usd, 50, 1)
                       \/ (agg.execution_count > 100 /\ Exceeds(agg.avg_cost_usd, 1, 2))
               THEN "HIGH"
               ELSE IF Exceeds(agg.total_cost_usd, 10, 1)
                       \/ (agg.execution_count > 50 /\ Exceeds(agg.avg_cost_usd, 1, 10))
               THEN "MEDIUM"
               ELSE "LOW"

\* a template whose total cost is exactly 100 was classified, and is HIGH
C9_ExactlyHundredIsHigh ==
    /\ agg.total_cost_usd = <<100, 1>>
    /\ tier = "HIGH"

\* ------------------------------------------------------------------------
\* Properties of the scans (SpecScan)
\* ------------------------------------------------------------------------

HashOf(row) == hash_pattern(normalize_sql_pattern(row.query))

\* the fetched rows whose normalized-pattern hash is h, in fetch order
FetchedWith(h) == SelectSeq(fetched, LAMBDA r : HashOf(r) = h)

\* C4: scan_project counts every fetched record in exactly one template:
\* a template's total_runs is the number of fetched records with its hash,
\* every fetched record's hash is the hash of exactly one template, and the
\* total_runs of the templates add up to total_queries_analyzed.
C4_EachRecordCountedOnce ==
    scanResult.success =>
        LET ts == scanResult.templates
        IN  /\ \A k \in DOMAIN ts :
                 ts[k].total_runs = Len(FetchedWith(ts[k].template_hash))
            /\ \A i \in DOMAIN fetched :
                 Cardinality({ k \in DOMAIN ts :
                                 ts[k].template_hash = HashOf(fetched[i]) }) = 1
            /\ Sum([k \in DOMAIN ts |-> ts[k].total_runs])
                 = scanResult.total_queries_analyzed

\* three records were fetched and grouped into one template of two runs and
\* one template of one run
C4_TwoTemplatesThreeRuns ==
    /\ scanResult.success
    /\ Len(fetched) = 3
    /\ Len(scanResult.templates) = 2
    /\ \E k \in DOMAIN scanResult.templates : scanResult.templates[k].total_runs = 2

\* the history without the records that carry an error_result
WithoutErrors(rows) == SelectSeq(rows, LAMBDA r : r.error_result = None)

BilledSelects(rows) ==
    SelectSeq(rows, LAMBDA r :
        /\ r.statement_type = "SELECT"
        /\ ~(r.total_bytes_billed # Null /\ r.total_bytes_billed <= 0))

\* the history without the records that processed 0 bytes or less, and
\* without the statements other than SELECT and DML
ProcessedStatements(rows) ==
    SelectSeq(rows, LAMBDA r :
        /\ r.statement_type \in {"SELECT", "INSERT", "UPDATE", "DELETE", "MERGE"}
        /\ ~(r.total_bytes_processed # Null /\ r.total_bytes_processed <= 0))

NearestRank(values, p) == values[((p * (Len(values) - 1)) \div 100) + 1]

\* C7: the percentiles scan_project reports for a template are the elements
\* at zero-based index floor(p/100 * (n-1)) of the ascending bytes processed
\* and of the ascending runtimes of its n records.
C7_NearestRankPercentiles ==
    scanResult.success =>
        \A k \in DOMAIN scanResult.templates :
            LET t == scanResult.templates[k]
                rows == FetchedWith(t.template_hash)
                bytes == Sorted([i \in DOMAIN rows |-> rows[i].total_bytes_processed])
                runtimes == Sorted([i \in DOMAIN rows |-> rows[i].runtime_seconds])
            IN  /\ t.p50_bytes_processed = NearestRank(bytes, 50)
                /\ t.p90_bytes_processed = NearestRank(bytes, 90)
                /\ t.p99_bytes_processed = NearestRank(bytes, 99)
                /\ t.p50_runtime_seconds = NearestRank(runtimes, 50)
                /\ t.p90_runtime_seconds = NearestRank(runtimes, 90)

\* bytes_billed or, when that is absent, bytes_processed
BilledOrProcessed(row) ==
    IF row.total_bytes_billed # Null THEN row.total_bytes_billed
    ELSE row.total_bytes_processed

\* (bytes / 2^40) * price_per_tb
BinaryTBCost(bytes, price_per_tb) == RatTimesInt(Rat(bytes, BinaryTB), price_per_tb)

\* C8: on every path the estimated cost of one run is (bytes / 2^40) *
\* price_per_tb: the runs scan_project keeps, the templates of one execution
\* of the INFORMATION_SCHEMA scan (in cents), and calculate_cost (in cents).
C8_CostPerBinaryTB ==
    /\ scanResult.success =>
         \A k \in DOMAIN scanResult.templates :
             \A j \in DOMAIN scanResult.templates[k].recent_runs :
                 LET run == scanResult.templates[k].recent_runs[j]
                 IN  \A i \in DOMAIN fetched :
                         fetched[i].job_id = run.job_id =>
                             run.estimated_cost =
                                 BinaryTBCost(BilledOrProcessed(fetched[i]), ScanPrice)
    /\ isResult.success =>
         \A t \in isResult.templates :
             t.execution_count = 1 =>
                 \E i \in DOMAIN jobs[P1] :
                     /\ jobs[P1][i].query_hash = t.query_hash
                     /\ jobs[P1][i].total_bytes_billed # Null
                     /\ t.total_cost_usd =
                            RatRound(BinaryTBCost(jobs[P1][i].total_bytes_billed, price), 100)
    /\ dryRun # NoDryRun =>
         dryRun.cost = RatRound(BinaryTBCost(dryRun.bytes_processed,
                                             dryRun.price_per_tb), 100)

\* C10: normalize_sql_pattern is idempotent: normalizing its own output
\* returns that output unchanged
C10_Idempotent == npc = "twice" => pattern2 = pattern

\* ------------------------------------------------------------------------
\* SpecLiteral: normalize_sql_pattern applied to two texts that are one text
\* but for one literal
\* ------------------------------------------------------------------------
MaxBefore == 1
MaxAfter == 3

Quotes == { "'", "\"" }

Quoted(q, c) == <<q>> \o c \o <<q>>

\* what stands between the quotes of the second text
Contents ==
    { <<>>, <<"b">>, <<"5">>, <<" ">>, <<"-">>, <<"*", "/">>,
      <<"-", "-">>, <<"b", "-", "-">>, <<"/", "*">> }

\* the literal of the first text and the literal of the second
LiteralPairs ==
    { << <<"5">>, <<"4", "2">> >>, << <<"1">>, <<"0">> >> }
    \cup { << Quoted(q, <<"a">>), Quoted(q, c) >> : q \in Quotes, c \in Contents }

InitLiteral ==
    /\ ScanIdle
    /\ ClassIdle
    /\ StoreIdle
    /\ UpsertIdle
    /\ \E before \in Texts(MaxBefore), after \in Texts(MaxAfter), pair \in LiteralPairs :
         /\ sql = before \o pair[1] \o after
         /\ sqlOther = before \o pair[2] \o after
    /\ pattern = <<>>
    /\ pattern2 = <<>>
    /\ patternOther = <<>>
    /\ npc = "input"

NormalizePair ==
    /\ npc = "input"
    /\ pattern' = normalize_sql_pattern(sql)
    /\ patternOther' = normalize_sql_pattern(sqlOther)
    /\ npc' = "pair"
    /\ UNCHANGED <<sql, sqlOther, pattern2, scanVars, classVars, storeVars, upsertVars>>

NextLiteral == NormalizePair

SpecLiteral == InitLiteral /\ [][NextLiteral]_vars

\* s and t are one text but for the digits of one standalone numeric literal:
\* a run of digits with no word character on either side.  With `apart`, no
\* block comment ends right before the literal and none opens right after it.
SameButDigits(s, t, apart) ==
    \E i \in 0..Len(s), j \in 0..Len(s) :
        /\ i + j < Len(s)
        /\ i + j < Len(t)
        /\ SubSeq(s, 1, i) = SubSeq(t, 1, i)
        /\ SubSeq(s, Len(s) - j + 1, Len(s)) = SubSeq(t, Len(t) - j + 1, Len(t))
        /\ \A k \in (i + 1)..(Len(s) - j) : IsDigit(s[k])
        /\ \A k \in (i + 1)..(Len(t) - j) : IsDigit(t[k])
        /\ ~IsWord(At(s, i))
        /\ ~IsWord(At(s, Len(s) - j + 1))
        /\ apart => /\ ~(At(s, i - 1) = "*" /\ At(s, i) = "/")
                    /\ ~(At(s, Len(s) - j + 1) = "/" /\ At(s, Len(s) - j + 2) = "*")

\* the text holds "--" or "/*"
HasCommentOpener(c) ==
    \E k \in 1..(Len(c) - 1) :
        \/ c[k] = "-" /\ c[k + 1] = "-"
        \/ c[k] = "/" /\ c[k + 1] = "*"

HasQuote(c) == \E k \in DOMAIN c : c[k] \in Quotes

\* s and t are one text but for the content of one quoted string literal that
\* holds no quote character; the literal is the first of the text and no
\* comment opens before it.  With `plain`, neither content holds a comment
\* opener.
SameButStringContent(s, t, plain) ==
    \E i \in 1..Len(s), j \in 1..Len(s) :
        /\ i + j <= Len(s)
        /\ i + j <= Len(t)
        /\ SubSeq(s, 1, i) = SubSeq(t, 1, i)
        /\ SubSeq(s, Len(s) - j + 1, Len(s)) = SubSeq(t, Len(t) - j + 1, Len(t))
        /\ s[i] \in Quotes
        /\ s[Len(s) - j + 1] = s[i]
        /\ ~HasQuote(SubSeq(s, 1, i - 1))
        /\ ~HasCommentOpener(SubSeq(s, 1, i - 1))
        /\ ~HasQuote(SubSeq(s, i + 1, Len(s) - j))
        /\ ~HasQuote(SubSeq(t, i + 1, Len(t) - j))
        /\ plain => /\ ~HasCommentOpener(SubSeq(s, i + 1, Len(s) - j))
                    /\ ~HasCommentOpener(SubSeq(t, i + 1, Len(t) - j))

MaxRecords == 3

\* two statements with one pattern that read two date-sharded tables
QueryT1 == <<"f","r","o","m"," ","p",".","d",".","t","-","1">>
QueryT2 == <<"F","R","O","M"," ","p",".","d",".","t","-","2">>

ViewRef == [ dataset_id |-> <<"d">>, table_id |-> <<"v">> ]

GroupKinds ==
    LET t1 == GoodRow(QueryT1, "hash_t", 10, 1, FALSE)
        b == GoodRow(QueryB, "hash_b", 20, 2, FALSE)
    IN  { t1,
          GoodRow(QueryT2, "hash_t", 30, 3, FALSE),
          b,
          [t1 EXCEPT !.referenced_tables =
                         [ kind |-> "json", refs |-> <<ViewRef, ViewRef>> ]],
          [t1 EXCEPT !.referenced_tables =
                         [ kind |-> "list", refs |-> <<ViewRef>> ]],
          [t1 EXCEPT !.creation_time = Null],
          [b EXCEPT !.creation_time = Null] }

InitGroup ==
    /\ NormIdle
    /\ ClassIdle
    /\ StoreIdle
    /\ UpsertIdle
    /\ jobs = [p \in Projects |-> <<>>]
    /\ price = ScanPrice
    /\ now = 0
    /\ templates = <<>>
    /\ \E l \in ListsOf(GroupKinds, MaxRecords) : fetched = Stamp(l, FALSE)
    /\ scanResult = NoResult
    /\ isResult = NoIsResult
    /\ dryRun = NoDryRun

\* the query has returned `fetched`
GroupFetched ==
    /\ scanResult = NoResult
    /\ ScanRows(P1, fetched)
    /\ UNCHANGED <<jobs, price, now, isResult, dryRun>>
    /\ UNCHANGED <<normVars, classVars, upsertVars, storeVars>>

NextGroup == GroupFetched

SpecGroup == InitGroup /\ [][NextGroup]_vars

\* the orders a list can be in
Perms(s) ==
    { [k \in DOMAIN s |-> s[f[k]]] :
        f \in { g \in [DOMAIN s -> DOMAIN s] :
                  \A a, c \in DOMAIN s : g[a] = g[c] => a = c } }

\* the hashes of a scan result with their counts
Totals(out) ==
    [ success |-> out.success,
      totals |-> { <<out.templates[k].template_hash,
                     out.templates[k].total_runs,
                     out.templates[k].total_bytes_processed>> :
                   k \in DOMAIN out.templates } ]

JobsOf(t) == { t.recent_runs[k].job_id : k \in DOMAIN t.recent_runs }

\* C12: records of one normalized pattern are runs of one template, and the
\* result list in any other order gives the same hashes, each with the same
\* total_runs and total_bytes_processed
C12_GroupingIgnoresOrder ==
    scanResult # NoResult =>
        /\ \A rs \in Perms(fetched) : Totals(ScanOutcome(P1, rs)) = Totals(scanResult)
        /\ scanResult.success =>
             \A i, j \in DOMAIN fetched :
                 normalize_sql_pattern(fetched[i].query)
                     = normalize_sql_pattern(fetched[j].query)
                 => \E k \in DOMAIN scanResult.templates :
                        {fetched[i].job_id, fetched[j].job_id}
                            \subseteq JobsOf(scanResult.templates[k])

\* two statements of one pattern were met with another one between them
C12_SplitGroupJoined ==
    /\ scanResult.success
    /\ Len(fetched) = 3
    /\ fetched[1].query = QueryT1
    /\ fetched[2].query = QueryB
    /\ fetched[3].query = QueryT2
    /\ Len(scanResult.templates) = 2
    /\ scanResult.templates[1].total_runs = 2

\* the records of the result list that went into the template t
RecordsOf(t) ==
    { i \in DOMAIN fetched :
        hash_pattern(normalize_sql_pattern(fetched[i].query)) = t.template_hash }

\* C15: the tables of a template of the scan are the union of the tables of
\* all the records that went into it
C15_TablesOfAllRecords ==
    scanResult.success =>
        \A k \in DOMAIN scanResult.templates :
            scanResult.templates[k].tables_used =
                UNION { extract_tables_from_query(fetched[i].query,
                                                  fetched[i].referenced_tables) :
                        i \in RecordsOf(scanResult.templates[k]) }

\* a record that holds its required fields
WellFormed(row) == row.creation_time # Null

StatFields ==
    { "runs", "bytesProcessedP90", "runtimeP50", "avgCostPerRun", "totalCost",
      "firstSeen", "lastSeen" }

\* C14: after an upsert, the statistical fields of every document it wrote
\* are the ones the scan computed, whatever the document held before, and
\* upserting the same scan result once more leaves them as they are
C14_UpsertOverwritesStatistics ==
    lastOp.op \in Upserts =>
        \A k \in DOMAIN scanResult.templates :
            LET t == scanResult.templates[k]
                id == generate_template_id(scanResult.project_id, t.sql_pattern)
            IN  id \in lastOp.touched =>
                  /\ id \in DOMAIN templates
                  /\ \A f \in StatFields :
                       /\ templates[id][f] = FirestoreTemplate(t)[f]
                       /\ SaveScan(templates, scanResult.project_id,
                                   scanResult, now)[id][f] = templates[id][f]
                  /\ lastOp.op = "create_project" =>
                       queryTemplates[<<scanResult.project_id, t.template_hash>>].total_runs
                           = t.total_runs

\* a scan has just upserted a document that was created before the first
\* run its statistics now count
C14_OlderDocumentOverwritten ==
    /\ lastOp.op \in { "scan_project", "refresh_project", "create_project" }
    /\ \E id \in lastOp.touched : templates[id].created_at < templates[id].firstSeen

\* C17: a request whose job-history query raises is answered with the
\* failure, and writes no template: the Firestore collections and the
\* query_templates table are after it as they were before it
C17_FailedQueryWritesNothing ==
    [][ lastOp'.query_failed =>
          /\ templates' = templates
          /\ queryTemplates' = queryTemplates
          /\ mainTemplates' = mainTemplates
          /\ lastOp'.op \in Upserts =>
               ~scanResult'.success /\ scanResult'.status >= 400 ]_vars

\* the query of a refresh has just raised, with templates stored
C17_RefreshFailedOnStoredTemplates ==
    /\ lastOp.op = "refresh_project"
    /\ lastOp.query_failed
    /\ DOMAIN templates # {}
    /\ DOMAIN queryTemplates # {}

\* ------------------------------------------------------------------------
\* SpecDelete: projects registered and deleted, in both backends
\* ------------------------------------------------------------------------
Delete == delete_project(P1)
MainDelete == main_delete_project(P1)

NextDelete ==
    \/ JobRuns
    \/ Tick
    \/ Create
    \/ Delete
    \/ MainCreate
    \/ MainDelete

SpecDelete == Init /\ [][NextDelete]_vars

\* C19: the delete endpoint, called for a registered project, leaves the
\* project record and every template stored, sets is_active to false, and
\* takes the project off the list of active projects
C19_DeleteOnlyDeactivates ==
    [][ /\ (lastOp'.op = "delete_project" /\ P1 \in DOMAIN projects) =>
             /\ P1 \in DOMAIN projects'
             /\ ~projects'[P1].is_active
             /\ P1 \notin get_projects(projects')
             /\ templates' = templates
             /\ queryTemplates' = queryTemplates
        /\ (lastOp'.op = "main_delete_project" /\ P1 \in mainProjects) =>
             /\ P1 \in mainProjects'
             /\ mainTemplates' = mainTemplates ]_vars

\* the same for the Firestore backend alone
FirestoreDeleteOnlyDeactivates ==
    [][ (lastOp'.op = "delete_project" /\ P1 \in DOMAIN projects) =>
             /\ P1 \in DOMAIN projects'
             /\ ~projects'[P1].is_active
             /\ P1 \notin get_projects(projects')
             /\ templates' = templates
             /\ queryTemplates' = queryTemplates ]_vars

\* ------------------------------------------------------------------------
\* SpecBatch: the two template upserts called with the templates of a scan,
\* any of their commits failing.  `upsert` holds the last call: the commits
\* it made (each the list of the positions of the templates it carries), the
\* commit that raised (0 when none did) and what the call returned (Null when
\* it raised).
\* ------------------------------------------------------------------------
BatchLimit == 500
MaxBatches == 1

\* the numbers of templates around every multiple of the limit
TemplateCounts ==
    { k * BatchLimit + d : k \in 0..MaxBatches, d \in {0 - 1, 0, 1, 2} } \cap Nat

\* the k-th template of a scan: one run of a statement of its own
BatchTemplate(k) ==
    LET row == [GoodRow(QueryB, "hash_b", 10 + k, 1, FALSE) EXCEPT !.job_id = k]
    IN  TemplateStats(AddRun(NewTemplate(P1, row, <<"T", k>>), row).t)

\* the result of a scan that found n templates
BatchResult(n) ==
    [ success |-> TRUE, status |-> 200, project_id |-> P1,
      templates_discovered |-> n, total_queries_analyzed |-> n,
      templates |-> [k \in 1..n |-> BatchTemplate(k)] ]

\* the commits of the loop of firestore_service.save_templates over n
\* templates: one whenever the batch holds 500 operations, and one for the
\* operations that remain
SaveCommits(n) ==
    [c \in 1..((n + BatchLimit - 1) \div BatchLimit) |->
        [j \in 1..(IF c * BatchLimit <= n THEN BatchLimit
                   ELSE n - (c - 1) * BatchLimit) |->
            (c - 1) * BatchLimit + j]]

\* a failed call that leaves nothing stored
CommittedNone(commits, c) == 0

\* the templates stored when commit c of `commits` raises
Committed(commits, c) == commits[c][1] - 1

\* firestore_service.save_templates(templates, project_id): every commit
\* succeeds (c = 0), or commit c raises and the call raises with it
SaveTemplatesCall ==
    /\ scanResult.success
    /\ LET n == Len(scanResult.templates)
           commits == SaveCommits(n)
       IN  \E c \in 0..Len(commits) :
             /\ queryTemplates' =
                    save_templates(queryTemplates,
                                   Take(scanResult.templates,
                                        IF c = 0 THEN n ELSE Committed(commits, c)),
                                   P1, now)
             /\ upsert' = [ fn |-> "save_templates",
                            commits |-> IF c = 0 THEN commits ELSE Take(commits, c),
                            failed |-> c,
                            result |-> IF c = 0 THEN n ELSE Null ]
    /\ lastOp' = [ op |-> "save_templates", touched |-> {}, query_failed |-> FALSE ]
    /\ UNCHANGED <<projects, analysis_results, proc, fetch>>
    /\ UNCHANGED <<normVars, scanVars, classVars, mainVars>>

\* template_manager.batch_save_templates(project_id, templates): one batch
\* for all the templates and one commit, which succeeds or raises
BatchSaveCall ==
    /\ scanResult.success
    /\ LET n == Len(scanResult.templates)
       IN  \E ok \in BOOLEAN :
             /\ templates' =
                    IF ok
                    THEN batch_save_templates(templates, P1,
                             [k \in 1..n |-> FirestoreTemplate(scanResult.templates[k])],
                             now)
                    ELSE templates
             /\ upsert' = [ fn |-> "batch_save_templates",
                            commits |-> << [k \in 1..n |-> k] >>,
                            failed |-> IF ok THEN 0 ELSE 1,
                            result |-> IF ok THEN n ELSE Null ]
    /\ lastOp' = [ op |-> "batch_save_templates", touched |-> {}, query_failed |-> FALSE ]
    /\ UNCHANGED <<jobs, price, now, fetched, scanResult, isResult, dryRun>>
    /\ UNCHANGED <<firestoreVars, mainVars, normVars, classVars, proc, fetch>>

InitBatch ==
    /\ NormIdle
    /\ ClassIdle
    /\ StoreIdle
    /\ UpsertIdle
    /\ jobs = [p \in Projects |-> <<>>]
    /\ price = ScanPrice
    /\ now = 0
    /\ templates = <<>>
    /\ fetched = <<>>
    /\ \E n \in TemplateCounts : scanResult = BatchResult(n)
    /\ isResult = NoIsResult
    /\ dryRun = NoDryRun

NextBatch == SaveTemplatesCall \/ BatchSaveCall

SpecBatch == InitBatch /\ [][NextBatch]_vars

\* the commits of the last call that carry the template at position k
CommitsOf(k) ==
    { c \in DOMAIN upsert.commits :
        \E j \in DOMAIN upsert.commits[c] : upsert.commits[c][j] = k }

\* C13: no commit of an upsert carries more than 500 writes, and when no
\* commit raised, every template passed in is carried by exactly one commit
C13_CommitsWithinLimit ==
    upsert.fn # "none" =>
        /\ \A c \in DOMAIN upsert.commits : Len(upsert.commits[c]) <= BatchLimit
        /\ upsert.failed = 0 =>
             \A k \in DOMAIN scanResult.templates : Cardinality(CommitsOf(k)) = 1

\* the same for firestore_service.save_templates alone
SaveTemplatesWithinLimit ==
    upsert.fn = "save_templates" =>
        /\ \A c \in DOMAIN upsert.commits : Len(upsert.commits[c]) <= BatchLimit
        /\ upsert.failed = 0 =>
             \A k \in DOMAIN scanResult.templates : Cardinality(CommitsOf(k)) = 1

\* C18: when a commit of save_templates raises, the call raises (it returns
\* no count), and every template of the commits before it is stored with the
\* statistics of this scan
C18_EarlierBatchesStay ==
    (upsert.fn = "save_templates" /\ upsert.failed # 0) =>
        /\ upsert.result = Null
        /\ \A c \in 1..(upsert.failed - 1) :
             \A j \in DOMAIN upsert.commits[c] :
                 LET t == scanResult.templates[upsert.commits[c][j]]
                 IN  /\ <<P1, t.template_hash>> \in DOMAIN queryTemplates
                     /\ queryTemplates[<<P1, t.template_hash>>].total_runs
                            = t.total_runs

\* the second commit of a call has raised after a first commit of 500
C18_SecondCommitFailed ==
    /\ upsert.fn = "save_templates"
    /\ upsert.failed = 2
    /\ Len(upsert.commits[1]) = BatchLimit
    /\ Cardinality(DOMAIN queryTemplates) = BatchLimit

\* ------------------------------------------------------------------------
\* SpecRace: two requests that upsert the template of one statement at the
\* same time, each after a scan of its own.  A call reads the store, then
\* commits its batch; the steps of the two calls interleave.  In this
\* specification a document of "query_templates" is stored under the id
\* Firestore gave it.
\* ------------------------------------------------------------------------
MaxCalls == 2

\* request 1 has scanned one run of the statement, request 2 two runs
RaceScan(p) ==
    ScanOutcome(P1, Stamp([k \in 1..p |-> GoodRow(QueryB, "hash_b", 10 * k, k, FALSE)],
                          FALSE)).templates[1]

\* where('template_hash', '==', ...).where('project_id', '==', ...): the ids
\* of the documents found
Existing(store, template_hash, project_id) ==
    { id \in DOMAIN store : /\ store[id].template_hash = template_hash
                            /\ store[id].project_id = project_id }

\* templates_collection.document(): an id no other document has
AutoId(p, call) == <<p, call>>

\* firestore_service.save_templates up to its commit: the document is looked
\* up, and batch.update or batch.set is added to the batch
SaveCheck(p) ==
    /\ proc[p].pc = "idle"
    /\ proc[p].calls < MaxCalls
    /\ LET t == RaceScan(p)
           existing == Existing(queryTemplates, t.template_hash, P1)
       IN  IF existing # {}
           THEN \E id \in existing :
                  proc' = [proc EXCEPT ![p] =
                      [ pc |-> "checked", fn |-> "save_templates",
                        batch |-> << [ op |-> "update", id |-> id,
                                       data |-> Stored(t) ] >>,
                        calls |-> @.calls + 1 ]]
           ELSE proc' = [proc EXCEPT ![p] =
                      [ pc |-> "checked", fn |-> "save_templates",
                        batch |-> << [ op |-> "set",
                                       id |-> AutoId(p, @.calls + 1),
                                       data |-> Merge(Stored(t),
                                                      [ created_at |-> now ]) ] >>,
                        calls |-> @.calls + 1 ]]
    /\ lastOp' = [ op |-> "save_templates", touched |-> {}, query_failed |-> FALSE ]
    /\ UNCHANGED <<firestoreVars, upsert, fetch, mainVars, normVars, scanVars, classVars>>

\* batch.commit() of firestore_service.save_templates
SaveCommit(p) ==
    /\ proc[p].pc = "checked"
    /\ proc[p].fn = "save_templates"
    /\ LET w == proc[p].batch[1]
       IN  queryTemplates' =
               (w.id :> IF w.op = "update" THEN Merge(queryTemplates[w.id], w.data)
                        ELSE w.data) @@ queryTemplates
    /\ proc' = [proc EXCEPT ![p].pc = "idle", ![p].batch = <<>>]
    /\ lastOp' = [ op |-> "save_templates", touched |-> {}, query_failed |-> FALSE ]
    /\ UNCHANGED <<projects, analysis_results, upsert, fetch, mainVars,
                   normVars, scanVars, classVars>>

\* batch_save_templates up to its commit: the document is read and the data
\* of the set is put together
BatchRead(p) ==
    /\ proc[p].pc = "idle"
    /\ proc[p].calls < MaxCalls
    /\ proc' = [proc EXCEPT ![p] =
           [ pc |-> "checked", fn |-> "batch_save_templates",
             batch |-> << BatchData(templates, P1,
                                    FirestoreTemplate(RaceScan(p)), now) >>,
             calls |-> @.calls + 1 ]]
    /\ lastOp' = [ op |-> "batch_save_templates", touched |-> {}, query_failed |-> FALSE ]
    /\ UNCHANGED <<firestoreVars, upsert, fetch, mainVars, normVars, scanVars, classVars>>

\* batch.commit() of batch_save_templates
BatchCommit(p) ==
    /\ proc[p].pc = "checked"
    /\ proc[p].fn = "batch_save_templates"
    /\ templates' = Commit(templates, proc[p].batch)
    /\ proc' = [proc EXCEPT ![p].pc = "idle", ![p].batch = <<>>]
    /\ lastOp' = [ op |-> "batch_save_templates", touched |-> {}, query_failed |-> FALSE ]
    /\ UNCHANGED <<jobs, price, now, fetched, scanResult, isResult, dryRun>>
    /\ UNCHANGED <<firestoreVars, upsert, fetch, mainVars, normVars, classVars>>

RaceSaveCheck == \E p \in Procs : SaveCheck(p)
RaceSaveCommit == \E p \in Procs : SaveCommit(p)
RaceBatchRead == \E p \in Procs : BatchRead(p)
RaceBatchCommit == \E p \in Procs : BatchCommit(p)

NextRace ==
    \/ RaceSaveCheck
    \/ RaceSaveCommit
    \/ RaceBatchRead
    \/ RaceBatchCommit
    \/ Tick

SpecRace == Init /\ [][NextRace]_vars

\* every call that was made has returned
NoCallInFlight == \A p \in Procs : proc[p].pc = "idle"

\* the statistics of the document are the ones of one of the two scans
FromOneScan(doc) ==
    \E p \in Procs :
        \A f \in StatFields : doc[f] = FirestoreTemplate(RaceScan(p))[f]

\* C20: once the concurrent upserts of one template have returned, one
\* document is stored for it, with the statistics of one of the two scans
C20_OneDocumentLastWriter ==
    NoCallInFlight =>
        /\ \A id \in DOMAIN templates : FromOneScan(templates[id])
        /\ Cardinality(Existing(queryTemplates, RaceScan(1).template_hash, P1)) <= 1
        /\ \A id \in DOMAIN queryTemplates :
               \E p \in Procs : queryTemplates[id].total_runs = RaceScan(p).total_runs

\* the same for batch_save_templates alone
BatchSaveLastWriterWins ==
    NoCallInFlight => \A id \in DOMAIN templates : FromOneScan(templates[id])

\* ------------------------------------------------------------------------
\* cache_hit_rate (SpecScan)
\* ------------------------------------------------------------------------

\* the rows of the history that query_metrics keeps under query_hash h
Contributing(h) ==
    { i \in DOMAIN jobs[P1] : MetricsWhere(jobs[P1][i]) /\ jobs[P1][i].query_hash = h }

\* rate, in tenths of a percent, is 100 * hits / runs rounded to one decimal:
\* no further than 0.05 from it, within [0, 100], 0.0 without a hit and 100.0
\* with nothing but hits
IsHitRate(rate, hits, runs) ==
    /\ 2 * (rate * runs - 1000 * hits) <= runs
    /\ 2 * (1000 * hits - rate * runs) <= runs
    /\ rate >= 0
    /\ rate <= 1000
    /\ hits = 0 => rate = 0
    /\ hits = runs => rate = 1000

\* C21: every template carries cache_hit_rate = 100 * (contributing runs with
\* cache_hit true) / total_runs rounded to one decimal, which lies in
\* [0, 100], is 0.0 without a cache hit and 100.0 when every run was one:
\* the templates of scan_project and those of the INFORMATION_SCHEMA scan.
C21_CacheHitRate ==
    /\ scanResult.success =>
         \A k \in DOMAIN scanResult.templates :
             LET t == scanResult.templates[k]
                 rows == FetchedWith(t.template_hash)
                 hits == Len(SelectSeq(rows, LAMBDA r : r.cache_hit))
             IN  /\ "cache_hit_rate" \in DOMAIN t
                 /\ IsHitRate(t.cache_hit_rate, hits, t.total_runs)
    /\ isResult.success =>
         \A t \in isResult.templates :
             LET group == Contributing(t.query_hash)
                 hits == Cardinality({ i \in group : jobs[P1][i].cache_hit })
             IN  /\ t.execution_count = Cardinality(group)
                 /\ IsHitRate(t.cache_hit_rate, hits, t.execution_count)

\* the same of the INFORMATION_SCHEMA scan alone
SchemaScanCacheHitRate ==
    isResult.success =>
        \A t \in isResult.templates :
            LET group == Contributing(t.query_hash)
                hits == Cardinality({ i \in group : jobs[P1][i].cache_hit })
            IN  /\ t.execution_count = Cardinality(group)
                /\ IsHitRate(t.cache_hit_rate, hits, t.execution_count)

\* the INFORMATION_SCHEMA scan reported a template one of whose three runs
\* was served from the cache: 33.3
SchemaScanOneHitInThree ==
    /\ isResult.success
    /\ \E t \in isResult.templates :
         t.execution_count = 3 /\ t.cache_hit_rate = 333

\* ------------------------------------------------------------------------
\* The percentiles of scan_project are values of the group (SpecScan)
\* ------------------------------------------------------------------------

\* the bytes_processed of the runs of the fetched rows with hash h
BytesOf(h) ==
    { Or(FetchedWith(h)[i].total_bytes_processed, 0) : i \in DOMAIN FetchedWith(h) }

\* C28: every template scan_project produces has a non-empty group; the
\* indexes len // 2, int(len * 0.9) and int(len * 0.99) lie within the
\* group, so each of p50, p90 and p99 of bytes processed is the value of one
\* of its records; for a group of one record all three are that value.
C28_PercentilesFromGroup ==
    scanResult.success =>
        \A k \in DOMAIN scanResult.templates :
            LET t == scanResult.templates[k]
                n == Len(FetchedWith(t.template_hash))
            IN  /\ n >= 1
                /\ t.total_runs = n
                /\ n \div 2 < n
                /\ (n * 9) \div 10 < n
                /\ (n * 99) \div 100 < n
                /\ t.p50_bytes_processed \in BytesOf(t.template_hash)
                /\ t.p90_bytes_processed \in BytesOf(t.template_hash)
                /\ t.p99_bytes_processed \in BytesOf(t.template_hash)
                /\ n = 1 =>
                     /\ t.p50_bytes_processed = t.p90_bytes_processed
                     /\ t.p90_bytes_processed = t.p99_bytes_processed
                     /\ BytesOf(t.template_hash) = { t.p50_bytes_processed }

\* a scan produced a template of one run and a template of two runs that
\* processed different numbers of bytes
C28_GroupOfOneAndGroupOfTwo ==
    /\ scanResult.success
    /\ \E k \in DOMAIN scanResult.templates :
         /\ scanResult.templates[k].total_runs = 1
         /\ scanResult.templates[k].p99_bytes_processed > 0
    /\ \E k \in DOMAIN scanResult.templates :
         /\ scanResult.templates[k].total_runs = 2
         /\ Cardinality(BytesOf(scanResult.templates[k].template_hash)) = 2

\* ------------------------------------------------------------------------
\* SpecSnippet: scan_project applied to statements longer than the 500
\* characters of the pattern it keeps
\* ------------------------------------------------------------------------

\* a column list of SnippetLen characters
LongList == [i \in 1..SnippetLen |-> IF i % 2 = 1 THEN "a" ELSE ","]

\* two statements that are one text for their first 500 characters, the
\* first of them with another literal, and a short statement
QueryLongX == LongList \o <<" ", "x", "=", "5">>
QueryLongX42 == LongList \o <<" ", "x", "=", "4", "2">>
QueryLongY == LongList \o <<" ", "y", "=", "5">>

SnippetKinds ==
    { GoodRow(QueryLongX, "hash_x", 10, 1, FALSE),
      GoodRow(QueryLongX42, "hash_x", 30, 3, FALSE),
      GoodRow(QueryLongY, "hash_y", 20, 2, FALSE),
      GoodRow(QueryB, "hash_b", 20, 2, FALSE) }

InitSnippet ==
    /\ NormIdle
    /\ ClassIdle
    /\ StoreIdle
    /\ UpsertIdle
    /\ jobs = [p \in Projects |-> <<>>]
    /\ price = ScanPrice
    /\ now = 0
    /\ templates = <<>>
    /\ \E l \in ListsOf(SnippetKinds, MaxRecords) : fetched = Stamp(l, FALSE)
    /\ scanResult = NoResult
    /\ isResult = NoIsResult
    /\ dryRun = NoDryRun

\* the query has returned `fetched`; the templates are grouped and saved
SnippetFetched ==
    /\ scanResult = NoResult
    /\ ScanRows(P1, fetched)
    /\ UNCHANGED <<jobs, price, now, isResult, dryRun>>
    /\ UNCHANGED <<normVars, classVars, upsertVars, storeVars>>

NextSnippet == SnippetFetched

SpecSnippet == InitSnippet /\ [][NextSnippet]_vars

\* C23: templates with distinct template hashes in one scan are stored as
\* distinct documents: batch_save_templates writes as many document ids as
\* the scan has distinct normalized-pattern hashes, also when two patterns
\* share their first 500 characters.
C23_OneDocumentPerHash ==
    scanResult.success =>
        Cardinality(DOMAIN templates)
            = Cardinality({ HashOf(fetched[i]) : i \in DOMAIN fetched })

\* the same for scans whose patterns differ within their first 500 characters
OneDocumentPerSnippet ==
    (scanResult.success
       /\ \A i, j \in DOMAIN fetched :
            HashOf(fetched[i]) # HashOf(fetched[j]) =>
                Take(normalize_sql_pattern(fetched[i].query), SnippetLen)
                    # Take(normalize_sql_pattern(fetched[j].query), SnippetLen))
        => Cardinality(DOMAIN templates)
             = Cardinality({ HashOf(fetched[i]) : i \in DOMAIN fetched })

\* ------------------------------------------------------------------------
\* SpecAnalysisRace: batch_save_templates of two requests in two steps each,
\* with save_analysis_result between any two steps
\* ------------------------------------------------------------------------
NextAnalysisRace ==
    \/ RaceBatchRead
    \/ RaceBatchCommit
    \/ SaveAnalysis
    \/ Tick

SpecAnalysisRace == Init /\ [][NextAnalysisRace]_vars

\* request p has read the stored document of its template and has not
\* committed; since the read, save_analysis_result has written the document
AnalysedSinceRead(p) ==
    /\ proc[p].pc = "checked"
    /\ proc[p].fn = "batch_save_templates"
    /\ LET data == proc[p].batch[1]
       IN  /\ "analysis_result_id" \in DOMAIN data
           /\ data.template_id \in DOMAIN templates
           /\ templates[data.template_id].analysis_status = "completed"
           /\ templates[data.template_id].analysis_result_id # data.analysis_result_id

\* C22: when save_analysis_result has run between the read of the existing
\* document by batch_save_templates and the commit of its batch, the commit
\* leaves the template with analysis_status = completed and with the
\* analysis_result_id that save_analysis_result wrote.
C22_AnalysisSurvivesCommit ==
    [][\A p \in Procs :
         (AnalysedSinceRead(p) /\ proc'[p].pc = "idle") =>
            LET id == proc[p].batch[1].template_id
            IN  /\ templates'[id].analysis_status = "completed"
                /\ templates'[id].analysis_result_id = templates[id].analysis_result_id]_vars

\* the same when the analysis was saved before the read: the batch carries it
AnalysisBeforeReadSurvives ==
    [][\A p \in Procs :
         (/\ proc[p].pc = "checked"
          /\ proc[p].fn = "batch_save_templates"
          /\ proc'[p].pc = "idle"
          /\ proc[p].batch[1].template_id \in DOMAIN templates
          /\ "analysis_result_id" \in DOMAIN proc[p].batch[1]
          /\ templates[proc[p].batch[1].template_id].analysis_status = "completed"
          /\ proc[p].batch[1].analysis_status = "completed"
          /\ templates[proc[p].batch[1].template_id].analysis_result_id
                = proc[p].batch[1].analysis_result_id) =>
            LET id == proc[p].batch[1].template_id
            IN  /\ templates'[id].analysis_status = "completed"
                /\ templates'[id].analysis_result_id = templates[id].analysis_result_id]_vars

\* ------------------------------------------------------------------------
\* A created project is listed (SpecDelete)
\* ------------------------------------------------------------------------

\* C24: after create_project has succeeded for a project, the project is
\* active and get_projects(active_only=True) returns it, in every sequence
\* of create_project and delete_project calls, a soft delete before the
\* create included.
C24_CreatedProjectIsListed ==
    (lastOp.op = "create_project" /\ scanResult.success) =>
        /\ P1 \in DOMAIN projects
        /\ projects[P1].is_active
        /\ P1 \in get_projects(projects)

\* the same for a project that no document was stored for
NewProjectIsListed ==
    [][(lastOp'.op = "create_project" /\ scanResult'.success
          /\ P1 \notin DOMAIN projects) =>
            P1 \in get_projects(projects')]_vars

\* ------------------------------------------------------------------------
\* The templates served after a refresh (Spec)
\* ------------------------------------------------------------------------

\* the hash and the run count of each template of a scan result
ScannedRuns(out) ==
    { <<out.templates[k].template_hash, out.templates[k].total_runs>>
        : k \in DOMAIN out.templates }

\* the hash and the run count of each template the endpoint returns
ServedRuns(project) ==
    { <<t.template_hash, t.runs>> : t \in get_project_templates(project) }

\* C25: after refresh_project has completed successfully, the templates that
\* GET /api/projects/{project_id}/templates returns for the project are the
\* templates of the refresh's scan, with its run counts: the store the
\* endpoint reads holds what the scan wrote.
C25_RefreshedTemplatesServed ==
    (lastOp.op = "refresh_project" /\ P1 \in DOMAIN projects /\ scanResult.success) =>
        ServedRuns(P1) = ScannedRuns(scanResult)

\* after create_project has succeeded, the endpoint returns every template
\* of the create's scan with its run count
CreatedTemplatesServed ==
    (lastOp.op = "create_project" /\ scanResult.success) =>
        ScannedRuns(scanResult) \subseteq ServedRuns(P1)

\* ------------------------------------------------------------------------
\* The record an upsert inserts (Spec)
\* ------------------------------------------------------------------------

\* C26: when an upsert (batch_save_templates within a scan, or
\* save_template) finds no stored template with the identity of the new one,
\* it inserts a record with analysis_status = new, created_at = the time of
\* the upsert, and no analysis_result_id.
C26_InsertedAsNew ==
    [][ lastOp'.op \in Upserts =>
          \A id \in DOMAIN templates' \ DOMAIN templates :
              /\ "analysis_status" \in DOMAIN templates'[id]
              /\ templates'[id].analysis_status = "new"
              /\ "created_at" \in DOMAIN templates'[id]
              /\ templates'[id].created_at = now
              /\ Get(templates'[id], "analysis_result_id", NoId) = NoId ]_vars

\* an upsert has just written a second template, created later than the
\* first, new and without an analysis
C26_SecondTemplateInserted ==
    /\ lastOp.op \in Upserts
    /\ now > 0
    /\ \E id \in lastOp.touched, other \in DOMAIN templates :
         /\ id # other
         /\ id \in DOMAIN templates
         /\ templates[other].created_at < now
         /\ templates[id].created_at = now
         /\ templates[id].analysis_status = "new"
         /\ Get(templates[id], "analysis_result_id", NoId) = NoId

\* ------------------------------------------------------------------------
\* SpecFetch: TemplateFirestoreManager.get_project_templates, its analysis
\* records fetched by a pool of workers
\* ------------------------------------------------------------------------
MaxFetch == 3

\* ThreadPoolExecutor(max_workers=10)
max_workers == 10

\* the document ids of the stored templates, in the order the query streams
\* them; the last is a template of another project
FetchNames == <<"a", "b", "c", "d", "e">>
FetchId(k) == <<"t", FetchNames[k]>>
OtherId == <<"t", "z">>
AnalysisOf(id) == id \o <<"_", "0">>

\* what a stored template holds of its analysis: nothing, an id that was
\* cleared, the id of a stored record, the id of a record that is not stored
FetchKinds == { "absent", "new", "cleared", "analysed", "orphan" }

FetchDoc(project, id, kind) ==
    LET doc == [ project_id |-> project, template_id |-> id,
                 analysis_status |-> IF kind \in {"analysed", "orphan"}
                                     THEN "completed" ELSE "new" ]
    IN  IF kind = "new" THEN doc
        ELSE IF kind = "cleared" THEN Merge(doc, [ analysis_result_id |-> NoId ])
        ELSE Merge(doc, [ analysis_result_id |-> AnalysisOf(id) ])

InitFetch ==
    /\ NormIdle
    /\ ClassIdle
    /\ UpsertIdle
    /\ jobs = [p \in Projects |-> <<>>]
    /\ price = ScanPrice
    /\ now = 0
    /\ fetched = <<>>
    /\ scanResult = NoResult
    /\ isResult = NoIsResult
    /\ dryRun = NoDryRun
    /\ projects = <<>>
    /\ queryTemplates = <<>>
    /\ mainProjects = {}
    /\ mainTemplates = {}
    /\ lastOp = NoOp
    /\ \E kinds \in [1..MaxFetch -> FetchKinds] :
         /\ templates =
              [ id \in { FetchId(k) : k \in { k \in 1..MaxFetch : kinds[k] # "absent" } }
                       \cup { OtherId } |->
                  IF id = OtherId THEN FetchDoc(P2, id, "analysed")
                  ELSE FetchDoc(P1, id,
                           kinds[CHOOSE k \in 1..MaxFetch : FetchId(k) = id]) ]
         /\ analysis_results =
              { AnalysisOf(FetchId(k)) : k \in { k \in 1..MaxFetch : kinds[k] = "analysed" } }
              \cup { AnalysisOf(OtherId) }

\* the ids of the stored documents, in document-id order
StreamOrder == [k \in 1..(MaxFetch + 1) |-> FetchId(k)] \o <<OtherId>>

\* the data of an analysis record
AnalysisData(aid) == [ timestamp |-> 0, result |-> <<"r">> \o aid ]

\* what fetch_analysis returns for a record that is not there, or when the
\* read raises
NoRecord == [ found |-> FALSE, id |-> <<>> ]

\* fetch_analysis(aid): (doc.id, doc.to_dict()) when the document exists,
\* None when it does not or when the read raises
fetch_analysis(aid, records, raises) ==
    IF ~raises /\ aid \in records THEN [ found |-> TRUE, id |-> aid ] ELSE NoRecord

\* a template with the analysis of every id, fetched or not
WithAnalysisUnchecked(template, analysis_map) ==
    IF Get(template, "analysis_result_id", NoId) # NoId
    THEN Merge(template, [ has_analysis |-> TRUE,
                           analysis_result |-> AnalysisData(template.analysis_result_id).result ])
    ELSE template

\* the body of `for template in template_docs`
WithAnalysis(template, analysis_map) ==
    IF /\ Get(template, "analysis_result_id", NoId) # NoId
       /\ template.analysis_result_id \in DOMAIN analysis_map
    THEN Merge(template, [ has_analysis |-> TRUE,
                           analysis_timestamp |-> analysis_map[template.analysis_result_id].timestamp,
                           analysis_result |-> analysis_map[template.analysis_result_id].result ])
    ELSE template

\* the query is streamed: template_docs and analysis_ids are filled, and one
\* future is submitted for each analysis id
FetchQuery(project) ==
    /\ fetch.pc = "idle"
    /\ LET ids == SelectSeq(StreamOrder,
                      LAMBDA id : id \in DOMAIN templates
                                  /\ templates[id].project_id = project)
           template_docs == [i \in DOMAIN ids |-> Merge(templates[ids[i]], [ id |-> ids[i] ])]
           analysed == SelectSeq(template_docs,
                           LAMBDA t : Get(t, "analysis_result_id", NoId) # NoId)
       IN  fetch' = [ pc |-> "fetching", project_id |-> project,
                      template_docs |-> template_docs,
                      futures |-> [k \in DOMAIN analysed |->
                                      [ aid |-> analysed[k].analysis_result_id,
                                        state |-> "queued", result |-> NoRecord ]],
                      analysis_map |-> <<>>, templates |-> <<>> ]
    /\ UNCHANGED <<upsert, proc, normVars, scanVars, classVars, storeVars>>

\* a worker of the pool takes the next future of the queue
WorkerStarts(k) ==
    /\ fetch.pc = "fetching"
    /\ fetch.futures[k].state = "queued"
    /\ \A j \in 1..(k - 1) : fetch.futures[j].state # "queued"
    /\ Cardinality({ j \in DOMAIN fetch.futures :
                       fetch.futures[j].state = "running" }) < max_workers
    /\ fetch' = [fetch EXCEPT !.futures[k].state = "running"]
    /\ UNCHANGED <<upsert, proc, normVars, scanVars, classVars, storeVars>>

\* its fetch_analysis returns
WorkerReturns(k, raises) ==
    /\ fetch.pc = "fetching"
    /\ fetch.futures[k].state = "running"
    /\ fetch' = [fetch EXCEPT
           !.futures[k].state = "done",
           !.futures[k].result = fetch_analysis(fetch.futures[k].aid,
                                                analysis_results, raises)]
    /\ UNCHANGED <<upsert, proc, normVars, scanVars, classVars, storeVars>>

\* as_completed yields a future that is done: its result, if any, is put
\* into analysis_map
FutureCollected(k) ==
    /\ fetch.pc = "fetching"
    /\ fetch.futures[k].state = "done"
    /\ fetch' = [fetch EXCEPT
           !.futures[k].state = "collected",
           !.analysis_map =
               IF fetch.futures[k].result.found
               THEN (fetch.futures[k].result.id :>
                        AnalysisData(fetch.futures[k].result.id)) @@ @
               ELSE @]
    /\ UNCHANGED <<upsert, proc, normVars, scanVars, classVars, storeVars>>

\* every future was collected: the templates are combined with the analyses
\* and returned
FetchReturns ==
    /\ fetch.pc = "fetching"
    /\ \A k \in DOMAIN fetch.futures : fetch.futures[k].state = "collected"
    /\ fetch' = [fetch EXCEPT
           !.pc = "done",
           !.templates = [i \in DOMAIN fetch.template_docs |->
                             WithAnalysis(fetch.template_docs[i], fetch.analysis_map)]]
    /\ UNCHANGED <<upsert, proc, normVars, scanVars, classVars, storeVars>>

FetchStarts == FetchQuery(P1)
PoolStarts == \E k \in DOMAIN fetch.futures : WorkerStarts(k)
PoolReturns == \E k \in DOMAIN fetch.futures, raises \in BOOLEAN : WorkerReturns(k, raises)
PoolCollected == \E k \in DOMAIN fetch.futures : FutureCollected(k)

NextFetch ==
    \/ FetchStarts
    \/ PoolStarts
    \/ PoolReturns
    \/ PoolCollected
    \/ FetchReturns

SpecFetch == InitFetch /\ [][NextFetch]_vars

\* the stored templates of the project
StoredOf(project) ==
    { id \in DOMAIN templates : templates[id].project_id = project }

\* C27: get_project_templates returns every stored template of the project
\* exactly once, whatever the order in which the fetches of the worker pool
\* complete and whether they fail or find nothing; a returned template carries
\* has_analysis and analysis_result only when the record its
\* analysis_result_id names is stored and was read without an error.
C27_EveryTemplateOnce ==
    fetch.pc = "done" =>
        /\ Len(fetch.templates) = Cardinality(StoredOf(fetch.project_id))
        /\ { fetch.templates[i].id : i \in DOMAIN fetch.templates }
             = StoredOf(fetch.project_id)
        /\ \A i \in DOMAIN fetch.templates :
             LET t == fetch.templates[i]
             IN  /\ \A f \in DOMAIN templates[t.id] : t[f] = templates[t.id][f]
                 /\ ("has_analysis" \in DOMAIN t \/ "analysis_result" \in DOMAIN t) =>
                      /\ t.has_analysis
                      /\ t.analysis_result_id \in analysis_results
                      /\ t.analysis_result = AnalysisData(t.analysis_result_id).result
                      /\ \E k \in DOMAIN fetch.futures :
                           /\ fetch.futures[k].aid = t.analysis_result_id
                           /\ fetch.futures[k].result.found

\* three templates were returned: one with its analysis, one whose fetch
\* found nothing or failed, fetched after the first had completed
C27_FetchedAndFailed ==
    /\ fetch.pc = "done"
    /\ Len(fetch.templates) = 3
    /\ \E i, j \in DOMAIN fetch.templates :
         /\ "has_analysis" \in DOMAIN fetch.templates[i]
         /\ "has_analysis" \notin DOMAIN fetch.templates[j]
         /\ Get(fetch.templates[j], "analysis_result_id", NoId) # NoId


\* ------------------------------------------------------------------------
\* C29: the analysis reference of a stored template
\* ------------------------------------------------------------------------
\* C29: after any sequence of scans, saves and save_analysis_result calls,
\* those for a template that does not exist included, every stored template
\* whose analysis_result_id is set has analysis_status "completed", and the id
\* names a record of the analysis collection.
C29_AnalysisReferenceIsSound ==
    \A id \in DOMAIN templates :
        Get(templates[id], "analysis_result_id", NoId) # NoId =>
            /\ templates[id].analysis_status = "completed"
            /\ templates[id].analysis_result_id \in analysis_results

\* a template was analysed and then saved again by a scan
C29_RescannedAfterAnalysis ==
    /\ lastOp.op \in {"scan_project", "refresh_project", "create_project"}
    /\ \E id \in lastOp.touched :
         /\ Get(templates[id], "analysis_result_id", NoId) # NoId
         /\ templates[id].analysis_result_id \in analysis_results


\* ------------------------------------------------------------------------
\* SpecProjects: the Firestore backend with requests for two projects
\* ------------------------------------------------------------------------
JobRunsIn == \E p \in Projects, kind \in JobKinds : RunJob(p, kind)
ScanOf == \E p \in Projects : ScanProject(p)
CreateOf == \E p \in Projects : create_project(p)
RefreshOf == \E p \in Projects : refresh_project(p)
AnalysisOfAny ==
    \E id \in DOMAIN templates : save_analysis_result(templates[id].project_id, id, 80)

NextProjects ==
    \/ JobRunsIn
    \/ ScanOf
    \/ CreateOf
    \/ RefreshOf
    \/ SaveTemplate
    \/ AnalysisOfAny

SpecProjects == Init /\ [][NextProjects]_vars

\* the documents of `store` that do not belong to `project`
OfOthers(store, project) ==
    { id \in DOMAIN store : store[id].project_id # project }

\* C30: an upsert of templates for a project (a scan, create or refresh of
\* it, or save_template) leaves every stored template of every other project
\* as it was, in collection "templates" and in collection "query_templates",
\* and every document it writes belongs to the project: the same pattern in
\* two projects is stored as two documents.
C30_OtherProjectsUntouched ==
    [][ lastOp'.op \in Upserts =>
          /\ \A id \in OfOthers(templates, scanResult'.project_id) :
               id \in DOMAIN templates' /\ templates'[id] = templates[id]
          /\ \A id \in OfOthers(queryTemplates, scanResult'.project_id) :
               id \in DOMAIN queryTemplates' /\ queryTemplates'[id] = queryTemplates[id]
          /\ \A id \in lastOp'.touched :
               /\ id \in DOMAIN templates'
               /\ templates'[id].project_id = scanResult'.project_id ]_vars

\* a project was created whose history holds the statement that another
\* project's stored and analysed template was made from: both collections
\* hold one document of the pattern for each project
C30_SamePatternInTwoProjects ==
    /\ lastOp.op = "create_project"
    /\ scanResult.success
    /\ \E a, b \in DOMAIN templates :
         /\ templates[a].project_id = scanResult.project_id
         /\ a \in lastOp.touched
         /\ templates[b].project_id # scanResult.project_id
         /\ templates[b].sqlSnippet = templates[a].sqlSnippet
         /\ templates[b].analysis_status = "completed"
    /\ \E a, b \in DOMAIN queryTemplates :
         /\ queryTemplates[a].project_id = scanResult.project_id
         /\ queryTemplates[b].project_id # scanResult.project_id
         /\ queryTemplates[b].template_hash = queryTemplates[a].template_hash

====
